---- MODULE Spec2Model ----
(***************************************************************************)
(* Model of the 24h-low buy bot: the live decision engine                  *)
(* (start_trading.py), the analyzer that feeds it                          *)
(* (data/24h_low_average_price_getter.py), the buy-only accumulation       *)
(* backtest (backtest/7_days_period_24h_low_range_backtest.py) and the     *)
(* round-trip backtest (backtest/24h_low_range_backtest.py).               *)
(*                                                                         *)
(* Prices and USD amounts are integers; percentages are carried in basis   *)
(* points of a percent (200 = 2.0 %, 5 = 0.05 %), so that every comparison *)
(* the code makes on floats is made here exactly.  On the price sets used  *)
(* below the float comparisons of the code and the exact ones agree.       *)
(* Fractional quantities (coins) are exact rationals <<num, den>>.         *)
(* Wall-clock time is in seconds.                                          *)
(***************************************************************************)
EXTENDS Integers, Sequences, FiniteSets, TLC

----------------------------------------------------------------------------
(* Bounds of the model (not program constants).                            *)

MaxCycles == 2
MaxBars == 4
MaxSeries == 3

----------------------------------------------------------------------------
(* Exact rationals.                                                        *)

RECURSIVE GCD(_, _)
GCD(a, b) == IF b = 0 THEN a ELSE GCD(b, a % b)

Abs(x) == IF x < 0 THEN -x ELSE x

Rat(n, d) ==
  LET g == GCD(Abs(n), Abs(d))
      s == IF d < 0 THEN -1 ELSE 1
  IN  IF n = 0 THEN <<0, 1>> ELSE <<(s * n) \div g, (s * d) \div g>>

RMul(x, y) == Rat(x[1] * y[1], x[2] * y[2])
RDiv(x, y) == Rat(x[1] * y[2], x[2] * y[1])
RAdd(x, y) == Rat(x[1] * y[2] + y[1] * x[2], x[2] * y[2])
RSub(x, y) == Rat(x[1] * y[2] - y[1] * x[2], x[2] * y[2])
RLe(x, y)  == x[1] * y[2] <= y[1] * x[2]
RLt(x, y)  == x[1] * y[2] < y[1] * x[2]
RInt(n)    == <<n, 1>>

RECURSIVE Pow10(_)
Pow10(k) == IF k = 0 THEN 1 ELSE 10 * Pow10(k - 1)

(* Python round(n/d, k): round half to even at k decimals.                 *)
RoundHalfEven(n, d, k) ==
  LET num == n * Pow10(k)
      q   == num \div d
      r   == num % d
      up  == IF 2 * r > d THEN 1
             ELSE IF 2 * r < d THEN 0
             ELSE IF q % 2 = 0 THEN 0 ELSE 1
  IN  Rat(q + up, Pow10(k))

----------------------------------------------------------------------------
(* Natural numbers of any size, as sequences of digits in base BBase,      *)
(* least significant first and without leading zeros (zero is the empty    *)
(* sequence): the 53-bit significands of the floats below, their products  *)
(* and quotients.                                                          *)

BDigitBits == 15
BBase == 32768

RECURSIVE BNat(_)
BNat(n) == IF n = 0 THEN <<>> ELSE <<n % BBase>> \o BNat(n \div BBase)

RECURSIVE BTrim(_)
BTrim(b) ==
  IF b = <<>> THEN <<>>
  ELSE IF b[Len(b)] = 0 THEN BTrim(SubSeq(b, 1, Len(b) - 1))
  ELSE b

BDigitAt(b, i) == IF i <= Len(b) THEN b[i] ELSE 0

RECURSIVE BAddFrom(_, _, _, _)
BAddFrom(a, b, i, carry) ==
  IF i > Len(a) /\ i > Len(b) THEN (IF carry = 0 THEN <<>> ELSE <<carry>>)
  ELSE LET t == BDigitAt(a, i) + BDigitAt(b, i) + carry
       IN  <<t % BBase>> \o BAddFrom(a, b, i + 1, t \div BBase)

BAdd(a, b) == BAddFrom(a, b, 1, 0)

(* a - b for a >= b.                                                       *)
RECURSIVE BSubFrom(_, _, _, _)
BSubFrom(a, b, i, borrow) ==
  IF i > Len(a) THEN <<>>
  ELSE LET t == BDigitAt(a, i) - BDigitAt(b, i) - borrow
       IN  <<t % BBase>> \o BSubFrom(a, b, i + 1, IF t < 0 THEN 1 ELSE 0)

BSub(a, b) == BTrim(BSubFrom(a, b, 1, 0))

RECURSIVE BCmpFrom(_, _, _)
BCmpFrom(a, b, i) ==
  IF i = 0 THEN 0
  ELSE IF a[i] > b[i] THEN 1
  ELSE IF a[i] < b[i] THEN -1
  ELSE BCmpFrom(a, b, i - 1)

(* -1, 0 or 1 as a is less than, equal to or greater than b.               *)
BCmp(a, b) ==
  IF Len(a) > Len(b) THEN 1
  ELSE IF Len(a) < Len(b) THEN -1
  ELSE BCmpFrom(a, b, Len(a))

(* a * x for a single digit x.                                             *)
RECURSIVE BMulSmallFrom(_, _, _, _)
BMulSmallFrom(a, x, i, carry) ==
  IF i > Len(a) THEN (IF carry = 0 THEN <<>> ELSE <<carry>>)
  ELSE LET t == a[i] * x + carry
       IN  <<t % BBase>> \o BMulSmallFrom(a, x, i + 1, t \div BBase)

BMulSmall(a, x) == IF x = 0 THEN <<>> ELSE BMulSmallFrom(a, x, 1, 0)

(* a with k zero digits put below it.                                      *)
BShiftDigits(a, k) ==
  IF a = <<>> \/ k = 0 THEN a ELSE [i \in 1..k |-> 0] \o a

RECURSIVE BMulFrom(_, _, _)
BMulFrom(a, b, i) ==
  IF i > Len(b) THEN <<>>
  ELSE BAdd(BMulSmall(a, b[i]), BShiftDigits(BMulFrom(a, b, i + 1), 1))

BMul(a, b) == BMulFrom(a, b, 1)

(* Quotient and remainder, by a single digit x, of the number made of the  *)
(* top k digits of a (short division).                                     *)
RECURSIVE BDivSmallTop(_, _, _)
BDivSmallTop(a, x, k) ==
  IF k = 0 THEN [q |-> <<>>, r |-> 0]
  ELSE LET p   == BDivSmallTop(a, x, k - 1)
           cur == p.r * BBase + a[Len(a) - k + 1]
       IN  [q |-> <<cur \div x>> \o p.q, r |-> cur % x]

(* a * 2^k, a div 2^k, a mod 2^k and the number of bits of a.              *)
BShl(a, k) ==
  BShiftDigits(BMulSmall(a, 2 ^ (k % BDigitBits)), k \div BDigitBits)

BShr(a, k) ==
  IF k \div BDigitBits >= Len(a) THEN <<>>
  ELSE LET top == SubSeq(a, k \div BDigitBits + 1, Len(a))
       IN  BTrim(BDivSmallTop(top, 2 ^ (k % BDigitBits), Len(top)).q)

BLow(a, k) ==
  IF k \div BDigitBits >= Len(a) THEN a
  ELSE BTrim(SubSeq(a, 1, k \div BDigitBits)
             \o <<a[k \div BDigitBits + 1] % (2 ^ (k % BDigitBits))>>)

RECURSIVE DigitBitLen(_)
DigitBitLen(x) == IF x = 0 THEN 0 ELSE 1 + DigitBitLen(x \div 2)

BBitLen(a) ==
  IF a = <<>> THEN 0
  ELSE BDigitBits * (Len(a) - 1) + DigitBitLen(a[Len(a)])

BOdd(a) == a # <<>> /\ a[1] % 2 = 1

(* The largest digit t in lo..hi with d * t <= cur (one holds for lo).     *)
RECURSIVE BQuotientDigit(_, _, _, _)
BQuotientDigit(cur, d, lo, hi) ==
  IF lo = hi THEN lo
  ELSE LET mid == (lo + hi + 1) \div 2
       IN  IF BCmp(BMulSmall(d, mid), cur) <= 0
           THEN BQuotientDigit(cur, d, mid, hi)
           ELSE BQuotientDigit(cur, d, lo, mid - 1)

(* Quotient and remainder, by d, of the number made of the top k digits of *)
(* n (long division).                                                      *)
RECURSIVE BDivTop(_, _, _)
BDivTop(n, d, k) ==
  IF k = 0 THEN [q |-> <<>>, r |-> <<>>]
  ELSE LET p   == BDivTop(n, d, k - 1)
           cur == BTrim(<<n[Len(n) - k + 1]>> \o p.r)
           t   == BQuotientDigit(cur, d, 0, BBase - 1)
       IN  [q |-> <<t>> \o p.q, r |-> BSub(cur, BMulSmall(d, t))]

BDivMod(n, d) ==
  LET qr == BDivTop(n, d, Len(n)) IN [q |-> BTrim(qr.q), r |-> qr.r]

----------------------------------------------------------------------------
(* Python floats (IEEE 754 binary64), for values in the normal range: a    *)
(* float is s * m * 2^e with sign s in {-1, 0, 1} and, unless it is zero,  *)
(* a significand m of exactly F64Bits bits.  Every operation returns the   *)
(* float nearest to the exact result, ties going to the even significand.  *)

F64Bits == 53

F64Zero == [s |-> 0, m |-> <<>>, e |-> 0]

(* The float sgn * m * 2^e of a significand of F64Bits bits, or of one bit  *)
(* more when rounding up has carried into it.                              *)
F64Pack(sgn, m, e) ==
  IF BBitLen(m) > F64Bits
  THEN [s |-> sgn, m |-> BShr(m, 1), e |-> e + 1]
  ELSE [s |-> sgn, m |-> m, e |-> e]

(* The float nearest to sgn * (q + r / d) * 2^e, where q has extra bits    *)
(* more than a significand and 0 <= r < d: q is rounded on those bits and  *)
(* on whether r is zero, ties going to the even significand.               *)
F64Nearest(sgn, q, r, extra, e) ==
  LET m0 == BShr(q, extra)
      c  == BCmp(BLow(q, extra), BShl(<<1>>, extra - 1))
  IN  F64Pack(sgn,
              IF c > 0 \/ (c = 0 /\ (r # <<>> \/ BOdd(m0)))
              THEN BAdd(m0, <<1>>) ELSE m0,
              e + extra)

F64Quotient(sgn, dm, e) ==
  F64Nearest(sgn, dm.q, dm.r, BBitLen(dm.q) - F64Bits, e)

(* The float nearest to sgn * (n / d) * 2^e0, for n > 0 and d > 0: the     *)
(* quotient is taken to two or three bits more than the significand has    *)
(* and rounded on them and on the remainder.                               *)
F64Round(sgn, n, d, e0) ==
  LET k == (F64Bits + 2) - (BBitLen(n) - BBitLen(d))
  IN  F64Quotient(sgn,
                  BDivMod(IF k >= 0 THEN BShl(n, k) ELSE n,
                          IF k >= 0 THEN d ELSE BShl(d, 0 - k)),
                  e0 - k)

(* float("n e-k"): the float of a decimal literal with k decimals.         *)
F64Dec(n, k) ==
  IF n = 0 THEN F64Zero
  ELSE F64Round(IF n < 0 THEN -1 ELSE 1, BNat(Abs(n)), BNat(Pow10(k)), 0)

F64Neg(x) == [x EXCEPT !.s = 0 - x.s]

F64Add(x, y) ==
  IF x.s = 0 THEN y
  ELSE IF y.s = 0 THEN x
  ELSE LET e == IF x.e <= y.e THEN x.e ELSE y.e
           a == BShl(x.m, x.e - e)
           b == BShl(y.m, y.e - e)
           c == BCmp(a, b)
       IN  IF x.s # y.s /\ c = 0 THEN F64Zero
           ELSE F64Round(IF x.s = y.s \/ c > 0 THEN x.s ELSE y.s,
                         IF x.s = y.s THEN BAdd(a, b)
                         ELSE IF c > 0 THEN BSub(a, b)
                         ELSE BSub(b, a),
                         <<1>>, e)

F64Sub(x, y) == F64Add(x, F64Neg(y))

F64Mul(x, y) ==
  IF x.s = 0 \/ y.s = 0 THEN F64Zero
  ELSE F64Round(x.s * y.s, BMul(x.m, y.m), <<1>>, x.e + y.e)

(* x / y for y other than zero.                                            *)
F64Div(x, y) ==
  IF x.s = 0 THEN F64Zero
  ELSE F64Round(x.s * y.s, x.m, y.m, x.e - y.e)

(* x <= y: the sign of the difference, which rounding does not change.     *)
F64Le(x, y) == F64Sub(x, y).s <= 0

----------------------------------------------------------------------------
(* The rolling-low signal.  NaN stands for pandas' missing value.          *)

NaN == -1

SeqMin(s) ==
  LET vals == {s[k] : k \in 1..Len(s)} \ {NaN}
  IN  IF vals = {} THEN NaN
      ELSE CHOOSE m \in vals : \A v \in vals : m <= v

RollingLowWide(lows, i, window) ==
  LET first == IF i - window < 1 THEN 1 ELSE i - window
  IN  SeqMin(SubSeq(lows, first, i))

(* data['low'].rolling(window, min_periods=1).min() at row i (1-based).    *)
RollingLow(lows, i, window) ==
  LET first == IF i - window + 1 < 1 THEN 1 ELSE i - window + 1
  IN  SeqMin(SubSeq(lows, first, i))

InBuyRangeOpenUpper(close, low24, rangeBps) ==
  /\ low24 # NaN
  /\ close >= low24
  /\ close * 10000 < low24 * (10000 + rangeBps)

(* A variant that takes only the closes in the top 0.25 % of the range.    *)
InBuyRangeUpperBand(close, low24, rangeBps) ==
  /\ low24 # NaN
  /\ close * 10000 >= low24 * (10000 + rangeBps - 25)
  /\ close * 10000 <= low24 * (10000 + rangeBps)

(* (close >= 24h_low) & (close <= 24h_low * (1 + range_percentage/100)).   *)
(* A comparison with NaN is False.                                         *)
InBuyRange(close, low24, rangeBps) ==
  /\ low24 # NaN
  /\ close >= low24
  /\ close * 10000 <= low24 * (10000 + rangeBps)

----------------------------------------------------------------------------
(* The analyzer's metrics as it computes them, in floats                   *)
(* (LowPriceAnalyzer.calculate_24h_low_metrics).                           *)

F64One == F64Dec(1, 0)
F64Hundred == F64Dec(100, 0)

(* data['low'].rolling(window, min_periods=1).min() at row i.              *)
RECURSIVE F64SeqMin(_)
F64SeqMin(xs) ==
  IF Len(xs) = 1 THEN xs[1]
  ELSE LET m == F64SeqMin(Tail(xs))
       IN  IF F64Le(xs[1], m) THEN xs[1] ELSE m

F64RollingLow(lows, i, window) ==
  F64SeqMin(SubSeq(lows, IF i - window + 1 < 1 THEN 1 ELSE i - window + 1, i))

(* The columns of one row, given its rolling low (lines 113-119).           *)
MetricRow(row, low24, range_percentage) ==
  LET upper == F64Mul(low24,
                      F64Add(F64One, F64Div(range_percentage, F64Hundred)))
  IN  [low |-> row.low,
       close |-> row.close,
       low24 |-> low24,
       buy_range_upper |-> upper,
       distance_from_low_pct |->
         F64Mul(F64Div(F64Sub(row.close, low24), low24), F64Hundred),
       in_buy_range |-> F64Le(low24, row.close) /\ F64Le(row.close, upper)]

calculate_24h_low_metrics(data, range_percentage) ==
  [i \in 1..Len(data) |->
     MetricRow(data[i],
               F64RollingLow([k \in 1..Len(data) |-> data[k].low], i, 1440),
               range_percentage)]

----------------------------------------------------------------------------
(* Live engine: configuration (TradingBotV01.__init__).                    *)

position_value_usd == 20
max_position_value_usd == 140
check_interval == 60
buy_block_minutes == 60
AnalyzerRangeBps == 5
AnalyzerWindow == 1440

(* Keys of coin_mapping, in the order the cycle walks them (two of them).  *)
CoinList == <<"XRP", "PAXG">>
Coins == {CoinList[k] : k \in 1..Len(CoinList)}
AnalyzerCoins == {"PUMP", "ENA", "XRP", "PAXG"}

NoBuy == -1

(* What the outside world can answer.  NotCalled marks a collaborator that *)
(* the handler does not reach on that path.                                *)
LiveBars == {[low |-> 2000, close |-> c] : c \in {2000, 2002}}
FetchOutcomes ==
  {[status |-> "error", data |-> <<>>], [status |-> "ok", data |-> <<>>]}
  \cup {[status |-> "ok", data |-> <<b>>] : b \in LiveBars}
UserStateOutcomes ==
  {[status |-> "exception", szi |-> 0], [status |-> "absent", szi |-> 0]}
  \cup {[status |-> "ok", szi |-> z] : z \in {60, -65, 70}}
HasPositionOutcomes ==
  {[status |-> "exception", szi |-> 0], [status |-> "ok", szi |-> 60]}
MidOutcomes ==
  {[status |-> "exception", price |-> 0], [status |-> "ok", price |-> 2]}
MetaOutcomes ==
  {[status |-> "exception", szDecimals |-> 0],
   [status |-> "missing", szDecimals |-> 0],
   [status |-> "ok", szDecimals |-> 2]}
ExchangeOutcomes == {"ok", "error", "exception"}
NotCalled == "not_called"
(* Seconds the clock advances between the reading of can_buy_time_wise     *)
(* and that of record_buy_timestamp, the order being placed in between.    *)
Latency == {1}
SleepExtra == {1740, 3540, 3600}

VARIABLES
  now,                  \* wall clock read by datetime.now(), seconds
  last_buy_timestamps,  \* coin -> time of last recorded buy, NoBuy if absent
  cycle_count,          \* cycles started so far
  pc,                   \* "idle" between cycles, "cycle" inside one,
                        \* "stopped" after an interrupt
  analyses,             \* analyses of the running cycle not yet processed
  results,              \* results of the running cycle so far
  market_open_calls,    \* exchange.market_open calls made by the last step
  exchange_fills,       \* coin -> number of orders the exchange confirmed
  error_log,            \* errors logged in the running cycle: <<kind, coin>>
  order_failures        \* coin -> failed order submissions in a row

liveVars == <<now, last_buy_timestamps, cycle_count, pc, analyses, results,
              market_open_calls, exchange_fills, error_log, order_failures>>

(* LowPriceAnalyzer.get_current_analysis on the outcome of the fetch: the  *)
(* empty sequence stands for None, <<a>> for the analysis dict a.          *)
get_current_analysis(coin, fetched) ==
  IF coin \notin AnalyzerCoins THEN <<>>
  ELSE IF fetched.status = "error" THEN <<>>
  ELSE IF fetched.data = <<>> THEN <<>>
  ELSE LET data   == fetched.data
           n      == Len(data)
           lows   == [k \in 1..n |-> data[k].low]
           close  == data[n].close
           low24  == RollingLow(lows, n, AnalyzerWindow)
           inr    == InBuyRange(close, low24, AnalyzerRangeBps)
       IN  <<[coin |-> coin,
              current_price |-> close,
              low_24h |-> low24,
              distance_from_low_pct |-> Rat((close - low24) * 100, low24),
              buy_signal |-> inr,
              signal_type |-> IF inr THEN "BUY_RANGE" ELSE "WAIT"]>>

RECURSIVE get_all_coin_analysis_abort(_, _)
get_all_coin_analysis_abort(coins, fetch) ==
  IF coins = <<>> THEN <<>>
  ELSE IF get_current_analysis(Head(coins), fetch[Head(coins)]) = <<>>
    THEN <<>>
  ELSE get_current_analysis(Head(coins), fetch[Head(coins)])
         \o get_all_coin_analysis_abort(Tail(coins), fetch)

(* A variant that analyses a coin whose fetch failed from a stale quote.    *)
RECURSIVE get_all_coin_analysis_stale(_, _)
get_all_coin_analysis_stale(coins, fetch) ==
  IF coins = <<>> THEN <<>>
  ELSE (IF get_current_analysis(Head(coins), fetch[Head(coins)]) = <<>>
        THEN get_current_analysis(Head(coins),
                                  [status |-> "ok",
                                   data |-> <<[low |-> 2000, close |-> 2000]>>])
        ELSE get_current_analysis(Head(coins), fetch[Head(coins)]))
         \o get_all_coin_analysis_stale(Tail(coins), fetch)

RECURSIVE get_all_coin_analysis(_, _)
get_all_coin_analysis(coins, fetch) ==
  IF coins = <<>> THEN <<>>
  ELSE get_current_analysis(Head(coins), fetch[Head(coins)])
         \o get_all_coin_analysis(Tail(coins), fetch)

(* has_position: False when the query failed or the coin has no position.  *)
has_position(us) ==
  IF us.status # "ok" THEN FALSE ELSE Abs(us.szi) > 0

(* get_position_value_usd: 0.0 on every failure path.                      *)
get_position_value_usd(us, mid) ==
  IF us.status # "ok" THEN 0
  ELSE IF Abs(us.szi) = 0 THEN 0
  ELSE IF mid.status = "exception" THEN 0
  ELSE IF mid.price = 0 THEN 0
  ELSE Abs(us.szi) * mid.price

can_buy_more_strict(current_value) ==
  [can_buy |-> max_position_value_usd - current_value > position_value_usd,
   current_value |-> current_value,
   remaining_capacity |-> max_position_value_usd - current_value]

can_buy_more(current_value) ==
  [can_buy |-> max_position_value_usd - current_value >= position_value_usd,
   current_value |-> current_value,
   remaining_capacity |-> max_position_value_usd - current_value]

can_buy_time_wise_minutes(last, current_time) ==
  IF last = NoBuy THEN TRUE
  ELSE current_time - last >= buy_block_minutes

can_buy_time_wise_strict(last, current_time) ==
  IF last = NoBuy THEN TRUE
  ELSE current_time - last > buy_block_minutes * 60

can_buy_time_wise(last, current_time) ==
  IF last = NoBuy THEN TRUE
  ELSE current_time - last >= buy_block_minutes * 60

(* create_market_buy_order: the call it makes to exchange.market_open (if  *)
(* it gets that far) and the dict it returns.                              *)
create_market_buy_order_sell(coin, analysis, meta, exch, at) ==
  IF meta.status # "ok" THEN
    [status |-> "error", error |-> "exception", calls |-> <<>>]
  ELSE
    LET size == RoundHalfEven(position_value_usd, analysis.current_price,
                              meta.szDecimals)
        call == [coin |-> coin, is_buy |-> FALSE, size |-> size, at |-> at]
    IN  [status |-> IF exch = "ok" THEN "ok" ELSE "error",
         error |-> IF exch = "ok" THEN "" ELSE "order_failed",
         calls |-> <<call>>]

create_market_buy_order_unguarded(coin, analysis, meta, exch, at) ==
  IF meta.status = "exception" THEN
    [status |-> "raised", error |-> "exception", calls |-> <<>>]
  ELSE IF meta.status = "missing" THEN
    [status |-> "error", error |-> "no_szDecimals", calls |-> <<>>]
  ELSE
    LET size == RoundHalfEven(position_value_usd, analysis.current_price,
                              meta.szDecimals)
        call == [coin |-> coin, is_buy |-> TRUE, size |-> size, at |-> at]
    IN  IF exch = "ok" THEN
          [status |-> "ok", error |-> "", calls |-> <<call>>]
        ELSE IF exch = "error" THEN
          [status |-> "error", error |-> "order_failed", calls |-> <<call>>]
        ELSE
          [status |-> "raised", error |-> "exception", calls |-> <<call>>]

create_market_buy_order(coin, analysis, meta, exch, at) ==
  IF meta.status = "exception" THEN
    [status |-> "error", error |-> "exception", calls |-> <<>>]
  ELSE IF meta.status = "missing" THEN
    [status |-> "error", error |-> "no_szDecimals", calls |-> <<>>]
  ELSE
    LET size == RoundHalfEven(position_value_usd, analysis.current_price,
                              meta.szDecimals)
        call == [coin |-> coin, is_buy |-> TRUE, size |-> size, at |-> at]
    IN  IF exch = "ok" THEN
          [status |-> "ok", error |-> "", calls |-> <<call>>]
        ELSE IF exch = "error" THEN
          [status |-> "error", error |-> "order_failed", calls |-> <<call>>]
        ELSE
          [status |-> "error", error |-> "exception", calls |-> <<call>>]

(* The message of a NONE result (process_coin_analysis, else branch).      *)
none_message_capacity_first(buy_signal, time_ok, cap) ==
  IF ~buy_signal THEN "no_signal"
  ELSE IF ~cap.can_buy THEN
    IF cap.current_value >= max_position_value_usd THEN "position_limit"
    ELSE "insufficient_capacity"
  ELSE IF ~time_ok THEN "time_blocked"
  ELSE "waiting"

none_message(buy_signal, time_ok, cap) ==
  IF ~buy_signal THEN "no_signal"
  ELSE IF ~time_ok THEN "time_blocked"
  ELSE IF ~cap.can_buy THEN
    IF cap.current_value >= max_position_value_usd THEN "position_limit"
    ELSE "insufficient_capacity"
  ELSE "waiting"

(* record_buy_timestamp: last_buy_timestamps[coin] = datetime.now().       *)
record_buy_timestamp(last, coin, t) == [last EXCEPT ![coin] = t]

(* "Record buy timestamp if successful" (lines 347-349).                   *)
RecordIfSuccessfulAlways(success, last, coin, t) ==
  record_buy_timestamp(last, coin, t)

RecordIfSuccessfulOnFailure(success, last, coin, t) ==
  IF ~success THEN record_buy_timestamp(last, coin, t) ELSE last

RecordIfSuccessfulElseForget(success, last, coin, t) ==
  IF success THEN record_buy_timestamp(last, coin, t)
  ELSE [last EXCEPT ![coin] = NoBuy]

RecordIfSuccessful(success, last, coin, t) ==
  IF success THEN record_buy_timestamp(last, coin, t) ELSE last

(* The test of line 337.                                                   *)
BuyDecisionNoTimeGate(buy_signal, can_buy, time_ok) ==
  buy_signal /\ can_buy

BuyDecision(buy_signal, can_buy, time_ok) ==
  buy_signal /\ can_buy /\ time_ok

(* A variant that buys only while no position is reported open.           *)
process_coin_analysis_flat_only(analysis, ext, last, tGate, tRec) ==
  LET coin    == analysis.coin
      has_pos == has_position(ext.us1)
      cap     == can_buy_more(get_position_value_usd(ext.us2, ext.mid))
      time_ok == can_buy_time_wise(last[coin], tGate)
      base    == [coin |-> coin,
                  signal |-> analysis.signal_type,
                  buy_signal |-> analysis.buy_signal,
                  distance_from_low |-> analysis.distance_from_low_pct,
                  has_position |-> has_pos,
                  current_value |-> cap.current_value,
                  remaining_capacity |-> cap.remaining_capacity,
                  action |-> "NONE",
                  success |-> FALSE,
                  message |-> ""]
  IN  IF ~has_pos /\ BuyDecision(analysis.buy_signal, cap.can_buy, time_ok) THEN
        LET o  == create_market_buy_order(coin, analysis, ext.meta, ext.exch,
                                          tGate)
            ok == o.status = "ok"
        IN  [result |-> [base EXCEPT !.action = "MARKET_BUY",
                                     !.success = ok,
                                     !.message = IF ok THEN "executed"
                                                 ELSE o.error],
             calls  |-> o.calls,
             last   |-> RecordIfSuccessful(ok, last, coin, tRec),
             tEnd   |-> IF ok THEN tRec ELSE tGate,
             raised |-> o.status = "raised"]
      ELSE
        [result |-> [base EXCEPT !.message =
                        none_message(analysis.buy_signal, time_ok, cap)],
         calls  |-> <<>>,
         last   |-> last,
         tEnd   |-> tGate,
         raised |-> FALSE]

(* process_coin_analysis: the result dict, the exchange calls made and the *)
(* new BuyBlockState; raised tells that an exception left the method (it   *)
(* has no handler of its own, so one leaving create_market_buy_order would *)
(* leave it too).  ext holds the answers of the collaborators; tGate   *)
(* is the clock read by can_buy_time_wise, tRec the clock read by          *)
(* record_buy_timestamp.                                                   *)
process_coin_analysis(analysis, ext, last, tGate, tRec) ==
  LET coin    == analysis.coin
      has_pos == has_position(ext.us1)
      cap     == can_buy_more(get_position_value_usd(ext.us2, ext.mid))
      time_ok == can_buy_time_wise(last[coin], tGate)
      base    == [coin |-> coin,
                  signal |-> analysis.signal_type,
                  buy_signal |-> analysis.buy_signal,
                  distance_from_low |-> analysis.distance_from_low_pct,
                  has_position |-> has_pos,
                  current_value |-> cap.current_value,
                  remaining_capacity |-> cap.remaining_capacity,
                  action |-> "NONE",
                  success |-> FALSE,
                  message |-> ""]
  IN  IF BuyDecision(analysis.buy_signal, cap.can_buy, time_ok) THEN
        LET o  == create_market_buy_order(coin, analysis, ext.meta, ext.exch,
                                          tGate)
            ok == o.status = "ok"
        IN  [result |-> [base EXCEPT !.action = "MARKET_BUY",
                                     !.success = ok,
                                     !.message = IF ok THEN "executed"
                                                 ELSE o.error],
             calls  |-> o.calls,
             last   |-> RecordIfSuccessful(ok, last, coin, tRec),
             tEnd   |-> IF ok THEN tRec ELSE tGate,
             raised |-> o.status = "raised"]
      ELSE
        [result |-> [base EXCEPT !.message =
                        none_message(analysis.buy_signal, time_ok, cap)],
         calls  |-> <<>>,
         last   |-> last,
         tEnd   |-> tGate,
         raised |-> FALSE]

----------------------------------------------------------------------------
(* Live engine: the run loop (run_continuous / run_trading_cycle).         *)

(* The backtests' state; the live engine leaves it alone.                  *)
VARIABLES
  coin_data,   \* the rows of the series read so far
  params,      \* the arguments of the running backtest
  acc,         \* locals of the accumulation backtest
  silent,      \* locals of its silent variant, run on the same series
  rt,          \* locals of the round-trip backtest
  bt_pc,       \* "off", "loop" (inside the for loop), "done" (returned)
               \* or "raised" (the report after the loop raised)
  final_value, \* the portfolio value returned
  test_results, \* results of test_range_percentages so far
  best_result  \* the result main selects from them

btVars == <<coin_data, params, acc, silent, rt, bt_pc, final_value,
            test_results, best_result>>

NoParams == [range_percentage |-> 0]
NoRun == [position |-> 0]
NoResult == [range_pct |-> 0]
SweepOff == test_results = <<>> /\ best_result = NoResult

BacktestOff ==
  /\ coin_data = <<>>
  /\ params = NoParams
  /\ acc = NoRun
  /\ silent = NoRun
  /\ rt = NoRun
  /\ bt_pc = "off"
  /\ final_value = <<0, 1>>
  /\ SweepOff

LiveInit ==
  /\ now = 0
  /\ last_buy_timestamps = [c \in Coins |-> NoBuy]
  /\ cycle_count = 0
  /\ pc = "idle"
  /\ analyses = <<>>
  /\ results = <<>>
  /\ market_open_calls = <<>>
  /\ exchange_fills = [c \in Coins |-> 0]
  /\ error_log = {}
  /\ order_failures = [c \in Coins |-> 0]
  /\ BacktestOff

(* The coins the analyzer logs as failed ("Failed to analyze").            *)
FetchErrors(fetch) ==
  {<<"fetch", c>> : c \in {x \in Coins :
                              get_current_analysis(x, fetch[x]) = <<>>}}

(* The errors one call of process_coin_analysis logs: a failed position    *)
(* query (get_current_positions, asked twice), a failed mid-price query    *)
(* and a failed order.                                                     *)
OrderFailed(e) ==
  e.meta.status # "ok" \/ e.exch \in {"error", "exception"}

StepErrors(coin, e) ==
  {<<"positions", coin>> : x \in {y \in {e.us1, e.us2} :
                                    y.status = "exception"}}
  \cup {<<"mid", coin>> : x \in {y \in {e.mid} : y.status = "exception"}}
  \cup {<<"order", coin>> : x \in {y \in {e} : OrderFailed(y)}}

(* run_trading_cycle up to the loop: fetch and analyse every coin.         *)
StartCycle ==
  /\ pc = "idle"
  /\ cycle_count < MaxCycles
  /\ \E fetch \in [Coins -> FetchOutcomes] :
       /\ analyses' = get_all_coin_analysis(CoinList, fetch)
       /\ error_log' = FetchErrors(fetch)
  /\ cycle_count' = cycle_count + 1
  /\ pc' = "cycle"
  /\ results' = <<>>
  /\ market_open_calls' = <<>>
  /\ UNCHANGED <<now, last_buy_timestamps, exchange_fills, order_failures>>
  /\ UNCHANGED btVars

(* The collaborators' answers one call of process_coin_analysis can meet:  *)
(* the mid price is asked only for a non-zero position, the metadata and   *)
(* the exchange only when an order is attempted.                           *)
ExternalAnswers(analysis, last, tGate) ==
  {[us1 |-> u1, us2 |-> u2, mid |-> m, meta |-> mt, exch |-> x] :
     u1 \in HasPositionOutcomes, u2 \in UserStateOutcomes,
     m \in MidOutcomes, mt \in MetaOutcomes,
     x \in ExchangeOutcomes \cup {NotCalled}}

Reached(analysis, last, tGate, e) ==
  LET queried == e.us2.status = "ok" /\ e.us2.szi # 0
      ordered == BuyDecision(analysis.buy_signal,
                   can_buy_more(get_position_value_usd(e.us2, e.mid)).can_buy,
                   can_buy_time_wise(last[analysis.coin], tGate))
  IN  /\ (~queried => e.mid = [status |-> "ok", price |-> 2])
      /\ (~ordered => e.meta = [status |-> "ok", szDecimals |-> 2])
      /\ ((ordered /\ e.meta.status = "ok") <=> e.exch # NotCalled)

(* One iteration of the loop of run_trading_cycle.  An exception leaving   *)
(* process_coin_analysis would leave run_trading_cycle and run_continuous  *)
(* (which logs it and raises it again) and end the process.                *)
ProcessCoin ==
  /\ pc = "cycle"
  /\ analyses # <<>>
  /\ \E e \in ExternalAnswers(Head(analyses), last_buy_timestamps, now),
        d \in Latency :
       /\ Reached(Head(analyses), last_buy_timestamps, now, e)
       /\ LET r == process_coin_analysis(Head(analyses), e,
                                         last_buy_timestamps, now, now + d)
              coin == Head(analyses).coin
          IN  IF r.raised
              THEN /\ pc' = "crashed"
                   /\ market_open_calls' = r.calls
                   /\ UNCHANGED <<results, last_buy_timestamps, now,
                                  exchange_fills, error_log, order_failures,
                                  analyses>>
              ELSE /\ results' = Append(results, r.result)
                   /\ market_open_calls' = r.calls
                   /\ last_buy_timestamps' = r.last
                   /\ now' = r.tEnd
                   /\ exchange_fills' =
                        IF r.calls # <<>> /\ e.exch = "ok"
                        THEN [exchange_fills EXCEPT ![coin] = @ + 1]
                        ELSE exchange_fills
                   /\ error_log' =
                        error_log \cup StepErrors(coin, e)
                   /\ order_failures' =
                        [order_failures EXCEPT ![coin] =
                           IF OrderFailed(e) THEN @ + 1 ELSE 0]
                   /\ analyses' = Tail(analyses)
                   /\ pc' = pc
  /\ UNCHANGED cycle_count
  /\ UNCHANGED btVars

(* End of run_trading_cycle and the sleep of run_continuous.               *)
EndCycle ==
  /\ pc = "cycle"
  /\ analyses = <<>>
  /\ pc' = "idle"
  /\ \E x \in SleepExtra : now' = now + check_interval + x
  /\ results' = <<>>
  /\ market_open_calls' = <<>>
  /\ error_log' = {}
  /\ UNCHANGED <<last_buy_timestamps, cycle_count, analyses, exchange_fills,
                 order_failures>>
  /\ UNCHANGED btVars

(* KeyboardInterrupt (Ctrl-C), which Python raises between any two         *)
(* instructions of the main thread.  No handler but that of run_continuous *)
(* catches it (the others catch Exception): it logs the stop and returns,  *)
(* and the locals of the cycle are gone.  Raised anywhere but between an   *)
(* order's confirmation and record_buy_timestamp, it leaves what the       *)
(* completed steps left.                                                   *)
Interrupt ==
  /\ pc \in {"idle", "cycle"}
  /\ pc' = "stopped"
  /\ analyses' = <<>>
  /\ results' = <<>>
  /\ market_open_calls' = <<>>
  /\ error_log' = {}
  /\ UNCHANGED <<now, last_buy_timestamps, cycle_count, exchange_fills,
                 order_failures>>
  /\ UNCHANGED btVars

(* Raised inside process_coin_analysis after exchange.market_open has      *)
(* returned ok (lines 288-299) and before record_buy_timestamp (line 349). *)
InterruptInOrder ==
  /\ pc = "cycle"
  /\ analyses # <<>>
  /\ \E e \in {x \in ExternalAnswers(Head(analyses), last_buy_timestamps,
                                      now) :
                 x.meta.status = "ok" /\ x.exch = "ok"} :
       /\ Reached(Head(analyses), last_buy_timestamps, now, e)
       /\ LET r == process_coin_analysis(Head(analyses), e,
                                         last_buy_timestamps, now, now)
          IN  /\ ~r.raised
              /\ r.result.success
              /\ market_open_calls' = r.calls
              /\ exchange_fills' =
                   [exchange_fills EXCEPT ![Head(analyses).coin] = @ + 1]
  /\ pc' = "stopped"
  /\ analyses' = <<>>
  /\ results' = <<>>
  /\ error_log' = {}
  /\ UNCHANGED <<now, last_buy_timestamps, cycle_count, order_failures>>
  /\ UNCHANGED btVars

LiveNext == StartCycle \/ ProcessCoin \/ EndCycle

(* The run loop with an operator who may stop it.                          *)
InterruptNext ==
  StartCycle \/ ProcessCoin \/ EndCycle \/ Interrupt \/ InterruptInOrder

----------------------------------------------------------------------------
(* Backtests: the candle series.                                           *)
(* A row is [timestamp, low, close]; timestamps are seconds and strictly   *)
(* increasing.  The series is built row by row; the signal columns of a    *)
(* row depend only on the rows up to it, so the columns computed on the    *)
(* prefix are those of the full frame.                                     *)

BacktestWindow == 1440
SecondsPerMinute == 60
MinutesPerHour == 60
SecondsPerDay == 86400

Minute(ts) == (ts \div SecondsPerMinute) % MinutesPerHour
Date(ts) == ts \div SecondsPerDay

FirstTimestamps == {SecondsPerDay - 60, SecondsPerDay}
BarSpacings == {30, 60, 3600}
BarShapes == {[low |-> 100, close |-> 100], [low |-> 97, close |-> 97],
              [low |-> 100, close |-> 105], [low |-> NaN, close |-> 100]}

Min(a, b) == IF a <= b THEN a ELSE b
Max(a, b) == IF a >= b THEN a ELSE b

(* calculate_24h_low_range: the frame with the columns 24h_low,            *)
(* buy_range_upper and in_buy_range added.                                 *)
calculate_24h_low_range(data, window, rangeBps) ==
  LET lows == [k \in 1..Len(data) |-> data[k].low]
  IN  [i \in 1..Len(data) |->
        LET low24 == RollingLow(lows, i, window)
        IN  [timestamp |-> data[i].timestamp,
             low |-> data[i].low,
             close |-> data[i].close,
             low24 |-> low24,
             buy_range_upper |->
               IF low24 = NaN THEN <<NaN, 1>>
               ELSE Rat(low24 * (10000 + rangeBps), 10000),
             in_buy_range |-> InBuyRange(data[i].close, low24, rangeBps)]]

(* ((current_price - current_24h_low) / current_24h_low) * 100             *)
DistanceFromLow(price, low24) == Rat((price - low24) * 100, low24)

----------------------------------------------------------------------------
(* Buy-only accumulation backtest (7_days_period_24h_low_range_backtest).  *)

AccParamSets ==
  {[range_percentage |-> 200, total_capital |-> tc, max_buy_amount |-> 20,
    max_buys_per_day |-> m] : tc \in {30, 70}, m \in {1, 2}}

AccStartMinuteUnset(p) ==
  [total_coins_owned |-> <<0, 1>>,
   buys |-> <<>>,
   remaining_capital |-> p.total_capital,
   last_check_minute |-> -1,
   daily_buys |-> <<>>,
   current_day |-> NaN,
   all_24h_lows |-> <<>>,
   entry_prices |-> <<>>,
   buy_opportunities |-> <<>>,
   min_price |-> NaN, max_price |-> 0,
   min_24h_low |-> NaN, max_24h_low |-> 0,
   buy_count |-> 0,
   total_spent |-> 0]

(* The locals of backtest_24h_low_strategy before the loop.                *)
AccStart(p) ==
  [total_coins_owned |-> <<0, 1>>,
   buys |-> <<>>,
   remaining_capital |-> p.total_capital,
   last_check_minute |-> 0,
   daily_buys |-> <<>>,
   current_day |-> NaN,
   all_24h_lows |-> <<>>,
   entry_prices |-> <<>>,
   buy_opportunities |-> <<>>,
   min_price |-> NaN, max_price |-> 0,
   min_24h_low |-> NaN, max_24h_low |-> 0,
   buy_count |-> 0,
   total_spent |-> 0]

(* daily_buys is a dict day -> count, kept as a sequence of <<day, count>>  *)
(* pairs in insertion order.                                               *)
DictHas(d, k) == \E j \in 1..Len(d) : d[j][1] = k
DictGet(d, k, default) ==
  IF DictHas(d, k) THEN d[CHOOSE j \in 1..Len(d) : d[j][1] = k][2]
  ELSE default
DictSet(d, k, v) ==
  IF DictHas(d, k) THEN [j \in 1..Len(d) |-> IF d[j][1] = k THEN <<k, v>>
                                             ELSE d[j]]
  ELSE Append(d, <<k, v>>)

MinOrFirst(cur, x) == IF cur = NaN THEN x ELSE Min(cur, x)

(* The buy condition of lines 143-145.                                     *)
AccBuyConditionOffByOne(in_buy_range, remaining_capital, bought_today, p) ==
  /\ in_buy_range
  /\ remaining_capital >= p.max_buy_amount
  /\ bought_today <= p.max_buys_per_day

AccBuyConditionNoCapital(in_buy_range, remaining_capital, bought_today, p) ==
  /\ in_buy_range
  /\ remaining_capital > 0
  /\ bought_today < p.max_buys_per_day

AccBuyConditionAnyCapital(in_buy_range, remaining_capital, bought_today, p) ==
  /\ in_buy_range
  /\ remaining_capital > 0
  /\ bought_today < p.max_buys_per_day

AccBuyCondition(in_buy_range, remaining_capital, bought_today, p) ==
  /\ in_buy_range
  /\ remaining_capital >= p.max_buy_amount
  /\ bought_today < p.max_buys_per_day

(* "Execute buy", lines 147-165.                                           *)
AccExecuteBuyRefund(st, row, day_key, p) ==
  LET buy_amount   == Min(p.max_buy_amount, st.remaining_capital)
      coins_bought == Rat(buy_amount, row.close)
  IN  [st EXCEPT
         !.total_coins_owned = RAdd(@, coins_bought),
         !.remaining_capital = @ + buy_amount,
         !.total_spent = @ + buy_amount,
         !.buy_count = @ + 1,
         !.daily_buys = DictSet(@, day_key, DictGet(@, day_key, 0) + 1),
         !.entry_prices = Append(@, row.close),
         !.buys = Append(@, [buy_price |-> row.close,
                             buy_amount |-> buy_amount,
                             coins_bought |-> coins_bought,
                             buy_time |-> row.timestamp,
                             low24 |-> row.low24,
                             distance_pct |->
                               DistanceFromLow(row.close, row.low24),
                             day |-> day_key])]

AccExecuteBuyNoDebit(st, row, day_key, p) ==
  LET buy_amount   == Min(p.max_buy_amount, st.remaining_capital)
      coins_bought == Rat(buy_amount, row.close)
  IN  [st EXCEPT
         !.total_coins_owned = RAdd(@, coins_bought),
         !.total_spent = @ + buy_amount,
         !.buy_count = @ + 1,
         !.daily_buys = DictSet(@, day_key, DictGet(@, day_key, 0) + 1),
         !.entry_prices = Append(@, row.close),
         !.buys = Append(@, [buy_price |-> row.close,
                             buy_amount |-> buy_amount,
                             coins_bought |-> coins_bought,
                             buy_time |-> row.timestamp,
                             low24 |-> row.low24,
                             distance_pct |->
                               DistanceFromLow(row.close, row.low24),
                             day |-> day_key])]

AccExecuteBuy(st, row, day_key, p) ==
  LET buy_amount   == Min(p.max_buy_amount, st.remaining_capital)
      coins_bought == Rat(buy_amount, row.close)
  IN  [st EXCEPT
         !.total_coins_owned = RAdd(@, coins_bought),
         !.remaining_capital = @ - buy_amount,
         !.total_spent = @ + buy_amount,
         !.buy_count = @ + 1,
         !.daily_buys = DictSet(@, day_key, DictGet(@, day_key, 0) + 1),
         !.entry_prices = Append(@, row.close),
         !.buys = Append(@, [buy_price |-> row.close,
                             buy_amount |-> buy_amount,
                             coins_bought |-> coins_bought,
                             buy_time |-> row.timestamp,
                             low24 |-> row.low24,
                             distance_pct |->
                               DistanceFromLow(row.close, row.low24),
                             day |-> day_key])]

(* One iteration of the loop of backtest_24h_low_strategy (lines 101-168). *)
AccProcessRowNoSkip(st, row, p) ==
  IF row.low24 = NaN THEN
    [st EXCEPT !.all_24h_lows = Append(@, NaN),
               !.last_check_minute = Minute(row.timestamp)]
  ELSE
    LET day_key == Date(row.timestamp)
        s1 == IF day_key # st.current_day
              THEN [st EXCEPT !.current_day = day_key,
                              !.daily_buys = IF DictHas(@, day_key) THEN @
                                             ELSE DictSet(@, day_key, 0)]
              ELSE st
        s2 == [s1 EXCEPT
                 !.all_24h_lows = Append(@, row.low24),
                 !.min_price = MinOrFirst(@, row.close),
                 !.max_price = Max(@, row.close),
                 !.min_24h_low = MinOrFirst(@, row.low24),
                 !.max_24h_low = Max(@, row.low24)]
        s3 == IF row.in_buy_range
              THEN [s2 EXCEPT !.buy_opportunities =
                      Append(@, [timestamp |-> row.timestamp,
                                 price |-> row.close,
                                 low24 |-> row.low24,
                                 distance_pct |->
                                   DistanceFromLow(row.close, row.low24),
                                 range_upper |-> row.buy_range_upper])]
              ELSE s2
    IN  IF Minute(row.timestamp) # s3.last_check_minute THEN
          LET s4 == [s3 EXCEPT !.last_check_minute = Minute(row.timestamp)]
          IN  IF AccBuyCondition(row.in_buy_range, s4.remaining_capital,
                                 DictGet(s4.daily_buys, day_key, 0), p)
              THEN AccExecuteBuy(s4, row, day_key, p)
              ELSE s4
        ELSE s3

AccProcessRow(st, row, p) ==
  IF row.low24 = NaN THEN st
  ELSE
    LET day_key == Date(row.timestamp)
        s1 == IF day_key # st.current_day
              THEN [st EXCEPT !.current_day = day_key,
                              !.daily_buys = IF DictHas(@, day_key) THEN @
                                             ELSE DictSet(@, day_key, 0)]
              ELSE st
        s2 == [s1 EXCEPT
                 !.all_24h_lows = Append(@, row.low24),
                 !.min_price = MinOrFirst(@, row.close),
                 !.max_price = Max(@, row.close),
                 !.min_24h_low = MinOrFirst(@, row.low24),
                 !.max_24h_low = Max(@, row.low24)]
        s3 == IF row.in_buy_range
              THEN [s2 EXCEPT !.buy_opportunities =
                      Append(@, [timestamp |-> row.timestamp,
                                 price |-> row.close,
                                 low24 |-> row.low24,
                                 distance_pct |->
                                   DistanceFromLow(row.close, row.low24),
                                 range_upper |-> row.buy_range_upper])]
              ELSE s2
    IN  IF Minute(row.timestamp) # s3.last_check_minute THEN
          LET s4 == [s3 EXCEPT !.last_check_minute = Minute(row.timestamp)]
          IN  IF AccBuyCondition(row.in_buy_range, s4.remaining_capital,
                                 DictGet(s4.daily_buys, day_key, 0), p)
              THEN AccExecuteBuy(s4, row, day_key, p)
              ELSE s4
        ELSE s3

(* backtest_24h_low_strategy_silent: its buy (lines 399-417) and one      *)
(* iteration of its loop (lines 353-417).                                  *)
AccExecuteBuySilent(st, row, day_key, p) ==
  LET buy_amount   == Min(p.max_buy_amount, st.remaining_capital)
      coins_bought == Rat(buy_amount, row.close)
  IN  [st EXCEPT
         !.total_coins_owned = RAdd(@, coins_bought),
         !.remaining_capital = @ - buy_amount,
         !.total_spent = @ + buy_amount,
         !.buy_count = @ + 1,
         !.daily_buys = DictSet(@, day_key, DictGet(@, day_key, 0) + 1),
         !.entry_prices = Append(@, row.close),
         !.buys = Append(@, [buy_price |-> row.close,
                             buy_amount |-> buy_amount,
                             coins_bought |-> coins_bought,
                             buy_time |-> row.timestamp,
                             low24 |-> row.low24,
                             distance_pct |->
                               DistanceFromLow(row.close, row.low24),
                             day |-> day_key])]

AccProcessRowSilent(st, row, p) ==
  IF row.low24 = NaN THEN st
  ELSE
    LET day_key == Date(row.timestamp)
        s1 == IF day_key # st.current_day
              THEN [st EXCEPT !.current_day = day_key,
                              !.daily_buys = IF DictHas(@, day_key) THEN @
                                             ELSE DictSet(@, day_key, 0)]
              ELSE st
        s2 == [s1 EXCEPT
                 !.all_24h_lows = Append(@, row.low24),
                 !.min_price = MinOrFirst(@, row.close),
                 !.max_price = Max(@, row.close),
                 !.min_24h_low = MinOrFirst(@, row.low24),
                 !.max_24h_low = Max(@, row.low24)]
        s3 == IF row.in_buy_range
              THEN [s2 EXCEPT !.buy_opportunities =
                      Append(@, [timestamp |-> row.timestamp,
                                 price |-> row.close,
                                 low24 |-> row.low24,
                                 distance_pct |->
                                   DistanceFromLow(row.close, row.low24),
                                 range_upper |-> row.buy_range_upper])]
              ELSE s2
    IN  IF Minute(row.timestamp) # s3.last_check_minute THEN
          LET s4 == [s3 EXCEPT !.last_check_minute = Minute(row.timestamp)]
          IN  IF /\ row.in_buy_range
                 /\ s4.remaining_capital >= p.max_buy_amount
                 /\ DictGet(s4.daily_buys, day_key, 0) < p.max_buys_per_day
              THEN AccExecuteBuySilent(s4, row, day_key, p)
              ELSE s4
        ELSE s3

(* After the loop (lines 170-172, 419-421).                                *)
AccFinalPortfolioValue(st, data) ==
  RAdd(RInt(st.remaining_capital),
       RMul(st.total_coins_owned, RInt(data[Len(data)].close)))

----------------------------------------------------------------------------
(* Round-trip backtest (24h_low_range_backtest).                           *)

RtParamSets ==
  {[range_percentage |-> 200, position_size_usd |-> 1000,
    take_profit_pct |-> tp, stop_loss_pct |-> 3] : tp \in {5, -3}}

(* The locals of backtest_24h_low_strategy before the loop.                *)
RtStart(p) ==
  [position |-> 0,
   entry_price |-> 0,
   coins_owned |-> <<0, 1>>,
   trades |-> <<>>,
   portfolio_value |-> RInt(p.position_size_usd),
   last_check_minute |-> 0,
   all_24h_lows |-> <<>>,
   entry_prices |-> <<>>,
   buy_opportunities |-> <<>>,
   min_price |-> NaN, max_price |-> 0,
   min_24h_low |-> NaN, max_24h_low |-> 0,
   trade_count |-> 0]

(* profit_pct = ((current_price - entry_price) / entry_price) * 100        *)
ProfitPct(price, entry_price) == Rat((price - entry_price) * 100, entry_price)

(* Lines 132-137: open the position.                                       *)
RtEnterFixedSize(st, row) ==
  [st EXCEPT !.position = 1,
             !.entry_price = row.close,
             !.coins_owned = Rat(params.position_size_usd, row.close),
             !.trade_count = @ + 1,
             !.entry_prices = Append(@, row.close)]

RtEnter(st, row) ==
  [st EXCEPT !.position = 1,
             !.entry_price = row.close,
             !.coins_owned = RDiv(st.portfolio_value, RInt(row.close)),
             !.trade_count = @ + 1,
             !.entry_prices = Append(@, row.close)]

(* Lines 148-165 and 169-186: close the position with the given reason.    *)
RtExit(st, row, profit_pct, reason) ==
  LET value == RMul(st.coins_owned, RInt(row.close))
  IN  [st EXCEPT
         !.position = 0,
         !.portfolio_value = value,
         !.trades = Append(@,
            [entry_price |-> st.entry_price,
             exit_price |-> row.close,
             profit_loss |->
               RSub(value, RMul(st.coins_owned, RInt(st.entry_price))),
             profit_pct |-> profit_pct,
             entry_time |-> row.timestamp,
             exit_time |-> row.timestamp,
             coins_traded |-> st.coins_owned,
             exit_reason |-> reason]),
         !.coins_owned = <<0, 1>>]

(* Lines 131-186: the rules evaluated at a check boundary.                 *)
RtCheckReenter(st, row, p) ==
  IF row.in_buy_range THEN RtEnter(st, row)
  ELSE IF st.position = 1 THEN
    LET profit_pct == ProfitPct(row.close, st.entry_price)
    IN  IF RLe(RInt(p.take_profit_pct), profit_pct)
          THEN RtExit(st, row, profit_pct, "TAKE_PROFIT")
        ELSE IF RLe(profit_pct, RInt(-p.stop_loss_pct))
          THEN RtExit(st, row, profit_pct, "STOP_LOSS")
        ELSE st
  ELSE st

RtCheckStopLossFirst(st, row, p) ==
  IF row.in_buy_range /\ st.position = 0 THEN RtEnter(st, row)
  ELSE IF st.position = 1 THEN
    LET profit_pct == ProfitPct(row.close, st.entry_price)
    IN  IF RLe(profit_pct, RInt(-p.stop_loss_pct))
          THEN RtExit(st, row, profit_pct, "STOP_LOSS")
        ELSE IF RLe(RInt(p.take_profit_pct), profit_pct)
          THEN RtExit(st, row, profit_pct, "TAKE_PROFIT")
        ELSE st
  ELSE st

RtCheckExitThenEnter(st, row, p) ==
  IF row.in_buy_range /\ st.position = 0 THEN RtEnter(st, row)
  ELSE IF st.position = 1 THEN
    LET profit_pct == ProfitPct(row.close, st.entry_price)
        closed == IF RLe(RInt(p.take_profit_pct), profit_pct)
                    THEN RtExit(st, row, profit_pct, "TAKE_PROFIT")
                  ELSE IF RLe(profit_pct, RInt(-p.stop_loss_pct))
                    THEN RtExit(st, row, profit_pct, "STOP_LOSS")
                  ELSE st
    IN  IF closed.position = 0 /\ row.in_buy_range
        THEN RtEnter(closed, row) ELSE closed
  ELSE st

RtCheck(st, row, p) ==
  IF row.in_buy_range /\ st.position = 0 THEN RtEnter(st, row)
  ELSE IF st.position = 1 THEN
    LET profit_pct == ProfitPct(row.close, st.entry_price)
    IN  IF RLe(RInt(p.take_profit_pct), profit_pct)
          THEN RtExit(st, row, profit_pct, "TAKE_PROFIT")
        ELSE IF RLe(profit_pct, RInt(-p.stop_loss_pct))
          THEN RtExit(st, row, profit_pct, "STOP_LOSS")
        ELSE st
  ELSE st

(* One iteration of the loop of backtest_24h_low_strategy (lines 97-186).  *)
RtProcessRowEveryBar(st, row, p) ==
  IF row.low24 = NaN THEN st
  ELSE
    LET s2 == [st EXCEPT
                 !.all_24h_lows = Append(@, row.low24),
                 !.min_price = MinOrFirst(@, row.close),
                 !.max_price = Max(@, row.close),
                 !.min_24h_low = MinOrFirst(@, row.low24),
                 !.max_24h_low = Max(@, row.low24)]
        s3 == IF row.in_buy_range
              THEN [s2 EXCEPT !.buy_opportunities =
                      Append(@, [timestamp |-> row.timestamp,
                                 price |-> row.close,
                                 low24 |-> row.low24,
                                 distance_pct |->
                                   DistanceFromLow(row.close, row.low24),
                                 range_upper |-> row.buy_range_upper])]
              ELSE s2
    IN  IF TRUE
        THEN RtCheck([s3 EXCEPT !.last_check_minute = Minute(row.timestamp)],
                     row, p)
        ELSE s3

RtProcessRow(st, row, p) ==
  IF row.low24 = NaN THEN st
  ELSE
    LET s2 == [st EXCEPT
                 !.all_24h_lows = Append(@, row.low24),
                 !.min_price = MinOrFirst(@, row.close),
                 !.max_price = Max(@, row.close),
                 !.min_24h_low = MinOrFirst(@, row.low24),
                 !.max_24h_low = Max(@, row.low24)]
        s3 == IF row.in_buy_range
              THEN [s2 EXCEPT !.buy_opportunities =
                      Append(@, [timestamp |-> row.timestamp,
                                 price |-> row.close,
                                 low24 |-> row.low24,
                                 distance_pct |->
                                   DistanceFromLow(row.close, row.low24),
                                 range_upper |-> row.buy_range_upper])]
              ELSE s2
    IN  IF Minute(row.timestamp) # s3.last_check_minute
        THEN RtCheck([s3 EXCEPT !.last_check_minute = Minute(row.timestamp)],
                     row, p)
        ELSE s3

(* After the loop (lines 188-195): a position still held is marked to the  *)
(* last close.                                                             *)
RtFinalPortfolioValueCash(st, data) == st.portfolio_value

RtFinalPortfolioValue(st, data) ==
  IF st.position = 1
  THEN RMul(st.coins_owned, RInt(data[Len(data)].close))
  ELSE st.portfolio_value

----------------------------------------------------------------------------
(* Backtests: state and steps.                                             *)

LiveOff ==
  /\ now = 0
  /\ last_buy_timestamps = [c \in Coins |-> NoBuy]
  /\ cycle_count = 0
  /\ pc = "off"
  /\ analyses = <<>>
  /\ results = <<>>
  /\ market_open_calls = <<>>
  /\ exchange_fills = [c \in Coins |-> 0]
  /\ error_log = {}
  /\ order_failures = [c \in Coins |-> 0]

(* The next row of the series: later than the last row, of any shape; a   *)
(* missing low occurs only as a gap at the start of the series.            *)
NextRows ==
  {[timestamp |-> ts, low |-> b.low, close |-> b.close] :
     ts \in IF coin_data = <<>> THEN FirstTimestamps
            ELSE {coin_data[Len(coin_data)].timestamp + d : d \in BarSpacings},
     b \in {x \in BarShapes :
              x.low = NaN => \A k \in 1..Len(coin_data) : coin_data[k].low = NaN}}

LastRow(data, p) ==
  calculate_24h_low_range(data, BacktestWindow, p.range_percentage)[Len(data)]

AccInit ==
  /\ LiveOff
  /\ coin_data = <<>>
  /\ params \in AccParamSets
  /\ acc = AccStart(params)
  /\ silent = AccStart(params)
  /\ rt = NoRun
  /\ bt_pc = "loop"
  /\ final_value = <<0, 1>>
  /\ SweepOff

AccBar ==
  /\ bt_pc = "loop"
  /\ Len(coin_data) < MaxBars
  /\ \E r \in NextRows :
       /\ coin_data' = Append(coin_data, r)
       /\ acc' = AccProcessRow(acc, LastRow(coin_data', params), params)
       /\ silent' = AccProcessRowSilent(silent, LastRow(coin_data', params),
                                        params)
  /\ UNCHANGED <<params, rt, bt_pc, final_value>>
  /\ UNCHANGED <<test_results, best_result>>
  /\ UNCHANGED liveVars

(* The tuple both accumulation functions return (lines 265-273, 427-435).  *)
AccReturned(st, data) ==
  [buys |-> st.buys,
   final_portfolio_value |-> AccFinalPortfolioValue(st, data),
   num_buys |-> Len(st.buys),
   price_stats |-> <<st.min_price, st.max_price, st.min_24h_low,
                     st.max_24h_low>>,
   buy_opportunities |-> Len(st.buy_opportunities),
   entry_prices |-> st.entry_prices,
   buy_opportunities_data |-> st.buy_opportunities,
   total_spent |-> st.total_spent,
   remaining_capital |-> st.remaining_capital,
   total_coins_owned |-> st.total_coins_owned]

(* The report the verbose functions print after the loop divides by the    *)
(* average 24h low, which is the int 0 when no row had a 24h low           *)
(* ("np.mean(all_24h_lows) if all_24h_lows else 0"): (0 - inf) / 0 raises  *)
(* ZeroDivisionError and the function does not return.                     *)
ReportRaises(st) == st.all_24h_lows = <<>>

AccReturn ==
  /\ bt_pc = "loop"
  /\ coin_data # <<>>
  /\ IF ReportRaises(acc)
     THEN bt_pc' = "raised" /\ final_value' = final_value
     ELSE /\ bt_pc' = "done"
          /\ final_value' = AccFinalPortfolioValue(acc, coin_data)
  /\ UNCHANGED <<coin_data, params, acc, silent, rt>>
  /\ UNCHANGED <<test_results, best_result>>
  /\ UNCHANGED liveVars

AccNext == AccBar \/ AccReturn

RtInit ==
  /\ LiveOff
  /\ coin_data = <<>>
  /\ params \in RtParamSets
  /\ rt = RtStart(params)
  /\ acc = NoRun
  /\ silent = NoRun
  /\ bt_pc = "loop"
  /\ final_value = <<0, 1>>
  /\ SweepOff

RtBar ==
  /\ bt_pc = "loop"
  /\ Len(coin_data) < MaxBars
  /\ \E r \in NextRows :
       /\ coin_data' = Append(coin_data, r)
       /\ rt' = RtProcessRow(rt, LastRow(coin_data', params), params)
  /\ UNCHANGED <<params, acc, silent, bt_pc, final_value>>
  /\ UNCHANGED <<test_results, best_result>>
  /\ UNCHANGED liveVars

RtReturn ==
  /\ bt_pc = "loop"
  /\ coin_data # <<>>
  /\ IF ReportRaises(rt)
     THEN bt_pc' = "raised" /\ final_value' = final_value
     ELSE /\ bt_pc' = "done"
          /\ final_value' = RtFinalPortfolioValue(rt, coin_data)
  /\ UNCHANGED <<coin_data, params, acc, silent, rt>>
  /\ UNCHANGED <<test_results, best_result>>
  /\ UNCHANGED liveVars

RtNext == RtBar \/ RtReturn

(* Both backtests run on one and the same series.                          *)
BothParamSets ==
  {[range_percentage |-> 200, total_capital |-> x[1], max_buy_amount |-> 20,
    max_buys_per_day |-> x[2], position_size_usd |-> 1000,
    take_profit_pct |-> x[3], stop_loss_pct |-> 3] :
     x \in {<<70, 2, 5>>, <<30, 1, -3>>}}

BothInit ==
  /\ LiveOff
  /\ coin_data = <<>>
  /\ params \in BothParamSets
  /\ acc = AccStart(params)
  /\ silent = AccStart(params)
  /\ rt = RtStart(params)
  /\ bt_pc = "loop"
  /\ final_value = <<0, 1>>
  /\ SweepOff

BothBar ==
  /\ bt_pc = "loop"
  /\ Len(coin_data) < MaxBars
  /\ \E r \in NextRows :
       /\ coin_data' = Append(coin_data, r)
       /\ acc' = AccProcessRow(acc, LastRow(coin_data', params), params)
       /\ silent' = AccProcessRowSilent(silent, LastRow(coin_data', params),
                                        params)
       /\ rt' = RtProcessRow(rt, LastRow(coin_data', params), params)
  /\ UNCHANGED <<params, bt_pc, final_value>>
  /\ UNCHANGED <<test_results, best_result>>
  /\ UNCHANGED liveVars

BothReturn ==
  /\ bt_pc = "loop"
  /\ coin_data # <<>>
  /\ IF ReportRaises(acc) \/ ReportRaises(rt)
     THEN bt_pc' = "raised" /\ final_value' = final_value
     ELSE /\ bt_pc' = "done"
          /\ final_value' = <<AccFinalPortfolioValue(acc, coin_data),
                              RtFinalPortfolioValue(rt, coin_data)>>
  /\ UNCHANGED <<coin_data, params, acc, silent, rt>>
  /\ UNCHANGED <<test_results, best_result>>
  /\ UNCHANGED liveVars

BothNext == BothBar \/ BothReturn

----------------------------------------------------------------------------
(* The analyzer's metrics alone: calculate_24h_low_metrics called on a     *)
(* frame of candles as fetch_1m_data builds it (prices quoted in decimals  *)
(* and converted with astype(float)), with the range_percentage the        *)
(* analyzer was constructed with.                                          *)

(* The frames have at most MetricRows rows.                                *)
MetricRows == 2

(* Quotes <<low, close>>, each a decimal <<digits, number of decimals>>.   *)
MetricQuotes ==
  {<<<<30000, 4>>, <<30015, 4>>>>, <<<<30000, 4>>, <<30014, 4>>>>,
   <<<<30000, 4>>, <<30016, 4>>>>, <<<<30000, 4>>, <<30000, 4>>>>,
   <<<<30000, 4>>, <<29999, 4>>>>, <<<<30000, 4>>, <<30600, 4>>>>,
   <<<<2000, 0>>, <<2001, 0>>>>,   <<<<2000, 0>>, <<20009, 1>>>>,
   <<<<2000, 0>>, <<2040, 0>>>>,   <<<<97, 0>>, <<9894, 2>>>>,
   <<<<97, 0>>, <<970485, 4>>>>,   <<<<11, 2>>, <<11011, 5>>>>,
   <<<<100, 0>>, <<102, 0>>>>,     <<<<100, 0>>, <<10005, 2>>>>}

(* 0.05 (the analyzer's default), 0.1 and 2.0.                             *)
MetricRanges == {<<5, 2>>, <<1, 1>>, <<20, 1>>}

MetricBars ==
  {[low |-> F64Dec(q[1][1], q[1][2]), close |-> F64Dec(q[2][1], q[2][2])] :
     q \in MetricQuotes}

MetricInit ==
  /\ LiveOff
  /\ \E n \in 1..MetricRows : coin_data \in [1..n -> MetricBars]
  /\ \E r \in MetricRanges :
       params = [range_percentage |-> F64Dec(r[1], r[2])]
  /\ acc = NoRun
  /\ silent = NoRun
  /\ rt = NoRun
  /\ bt_pc = "metrics"
  /\ final_value = <<0, 1>>
  /\ SweepOff

MetricCalculate ==
  /\ bt_pc = "metrics"
  /\ coin_data' = calculate_24h_low_metrics(coin_data, params.range_percentage)
  /\ bt_pc' = "metrics_done"
  /\ UNCHANGED <<params, acc, silent, rt, final_value>>
  /\ UNCHANGED <<test_results, best_result>>
  /\ UNCHANGED liveVars

MetricNext == MetricCalculate

----------------------------------------------------------------------------
(* The signal alone: calculate_24h_low_range called on a frame, with any   *)
(* window and range_percentage.  The function adds its columns to the      *)
(* frame in place; nothing checks the arguments before the frame is        *)
(* evaluated.                                                              *)

SigBars ==
  {[low |-> l, close |-> l + d] : l \in {98, 100, 102}, d \in {0, 1}}
  \cup {[low |-> NaN, close |-> 100]}

SigWindows == {1, 2, 3}
SigRanges == {-100, 0, 100, 200}

SigParamSets ==
  {[window |-> w, range_percentage |-> r] : w \in SigWindows, r \in SigRanges}

(* The frames of 1..MaxSeries one-minute rows.                             *)
SigFrames ==
  UNION {{[i \in 1..n |-> [timestamp |-> SecondsPerDay + i * SecondsPerMinute,
                           low |-> f[i].low, close |-> f[i].close]] :
            f \in [1..n -> SigBars]} : n \in 1..MaxSeries}

SigInit ==
  /\ LiveOff
  /\ coin_data \in SigFrames
  /\ params \in SigParamSets
  /\ acc = NoRun
  /\ silent = NoRun
  /\ rt = NoRun
  /\ bt_pc = "signal"
  /\ final_value = <<0, 1>>
  /\ SweepOff

SigCalculate ==
  /\ bt_pc = "signal"
  /\ coin_data' = calculate_24h_low_range(coin_data, params.window,
                                          params.range_percentage)
  /\ bt_pc' = "signal_done"
  /\ UNCHANGED <<params, acc, silent, rt, final_value>>
  /\ UNCHANGED <<test_results, best_result>>
  /\ UNCHANGED liveVars

SigNext == SigCalculate

----------------------------------------------------------------------------
(* The range sweep of 7_days_period_24h_low_range_backtest: main fetches   *)
(* one series, test_range_percentages runs the silent backtest on it once  *)
(* per candidate range, and main takes the best result.                    *)

test_ranges == <<5, 10, 15, 20, 25, 30, 35, 40, 45, 50>>

(* The arguments of test_range_percentages: max_buy_amount as main passes  *)
(* it, max_buys_per_day as main passes it or one a day, and a smaller      *)
(* total_capital.                                                          *)
SweepParamSets ==
  {[total_capital |-> tc, max_buy_amount |-> 50, max_buys_per_day |-> mb] :
     tc \in {100, 200}, mb \in {10, 1}}

(* Closes at the low, 0.25 % above it and 1 % above it.                    *)
SweepBars == {[low |-> 2000, close |-> c] : c \in {2000, 2005, 2020}}

(* The series of 1..MaxBars one-minute rows.                               *)
SweepFrames ==
  UNION {{[i \in 1..n |-> [timestamp |-> SecondsPerDay + i * SecondsPerMinute,
                           low |-> f[i].low, close |-> f[i].close]] :
            f \in [1..n -> SweepBars]} : n \in 1..MaxBars}

(* The loop of backtest_24h_low_strategy_silent from row k on.             *)
RECURSIVE SilentLoop(_, _, _, _)
SilentLoop(st, frame, k, p) ==
  IF k > Len(frame) THEN st
  ELSE SilentLoop(AccProcessRowSilent(st, frame[k], p), frame, k + 1, p)

(* backtest_24h_low_strategy_silent: what it returns.                      *)
backtest_24h_low_strategy_silent(data, p) ==
  LET frame == calculate_24h_low_range(data, BacktestWindow,
                                       p.range_percentage)
      st    == SilentLoop(AccStart(p), frame, 1, p)
  IN  [buys |-> st.buys,
       final_portfolio_value |-> AccFinalPortfolioValue(st, data),
       num_buys |-> Len(st.buys),
       buy_opportunities |-> Len(st.buy_opportunities),
       total_spent |-> st.total_spent,
       remaining_capital |-> st.remaining_capital]

(* One iteration of the loop of test_range_percentages (lines 288-312).    *)
TestRange(data, range_pct, sp) ==
  LET run == backtest_24h_low_strategy_silent(data,
               [range_percentage |-> range_pct,
                total_capital |-> sp.total_capital,
                max_buy_amount |-> sp.max_buy_amount,
                max_buys_per_day |-> sp.max_buys_per_day])
      gain == RSub(run.final_portfolio_value, RInt(sp.total_capital))
  IN  [range_pct |-> range_pct,
       buys |-> run.num_buys,
       final_value |-> run.final_portfolio_value,
       return_pct |-> RMul(RDiv(gain, RInt(sp.total_capital)), RInt(100)),
       return_usd |-> gain,
       total_spent |-> run.total_spent,
       remaining_capital |-> run.remaining_capital,
       buy_opportunities |-> run.buy_opportunities]

(* Python's max(results, key=return_pct): a later element replaces the     *)
(* best so far only when its key is strictly greater.                      *)
RECURSIVE MaxFrom(_, _, _)
MaxFrom(rs, k, best) ==
  IF k > Len(rs) THEN best
  ELSE MaxFrom(rs, k + 1,
               IF RLt(best.return_pct, rs[k].return_pct) THEN rs[k] ELSE best)

RECURSIVE MaxFromLast(_, _, _)
MaxFromLast(rs, k, best) ==
  IF k > Len(rs) THEN best
  ELSE MaxFromLast(rs, k + 1,
               IF RLe(best.return_pct, rs[k].return_pct) THEN rs[k] ELSE best)

MaxByReturnLast(rs) == MaxFromLast(rs, 2, rs[1])

MaxByReturn(rs) == MaxFrom(rs, 2, rs[1])

SweepInit ==
  /\ LiveOff
  /\ coin_data \in SweepFrames
  /\ params \in SweepParamSets
  /\ acc = NoRun
  /\ silent = NoRun
  /\ rt = NoRun
  /\ bt_pc = "sweep"
  /\ final_value = <<0, 1>>
  /\ SweepOff

(* One iteration of the loop of test_range_percentages.                    *)
SweepTest ==
  /\ bt_pc = "sweep"
  /\ Len(test_results) < Len(test_ranges)
  /\ test_results' =
       Append(test_results,
              TestRange(coin_data, test_ranges[Len(test_results) + 1], params))
  /\ UNCHANGED <<coin_data, params, acc, silent, rt, bt_pc, final_value,
                 best_result>>
  /\ UNCHANGED liveVars

(* main, line 477: the best performing range.                              *)
SweepSelect ==
  /\ bt_pc = "sweep"
  /\ Len(test_results) = Len(test_ranges)
  /\ best_result' = MaxByReturn(test_results)
  /\ bt_pc' = "swept"
  /\ UNCHANGED <<coin_data, params, acc, silent, rt, final_value,
                 test_results>>
  /\ UNCHANGED liveVars

SweepNext == SweepTest \/ SweepSelect

----------------------------------------------------------------------------
(* Specifications.                                                         *)

vars == <<liveVars, btVars>>

(* The live engine.                                                        *)
Spec == LiveInit /\ [][LiveNext]_vars

(* The live engine, interruptible with Ctrl-C.                             *)
InterruptSpec == LiveInit /\ [][InterruptNext]_vars

(* The accumulation backtest on any series of at most MaxBars rows.        *)
AccSpec == AccInit /\ [][AccNext]_vars

(* The round-trip backtest on any series of at most MaxBars rows.          *)
RtSpec == RtInit /\ [][RtNext]_vars

(* The signal on any frame of at most MaxSeries rows.                      *)
SigSpec == SigInit /\ [][SigNext]_vars

(* The range sweep on any series of at most MaxBars rows.                  *)
SweepSpec == SweepInit /\ [][SweepNext]_vars

(* Both backtests on the same series of at most MaxBars rows.              *)
BothSpec == BothInit /\ [][BothNext]_vars

(* The analyzer's metrics on frames of MetricRows quotes.                  *)
MetricSpec == MetricInit /\ [][MetricNext]_vars

----------------------------------------------------------------------------
(* Live engine: properties.                                                *)

(* A step that ran process_coin_analysis for the head of analyses.         *)
ProcessStep == pc = "cycle" /\ Len(results') = Len(results) + 1

LastResult == results[Len(results)]

CapacityGate(current_value) ==
  max_position_value_usd - current_value >= position_value_usd

TimeGate(c, t) ==
  \/ last_buy_timestamps[c] = NoBuy
  \/ t - last_buy_timestamps[c] >= buy_block_minutes * 60

(* The three gates of a process_coin_analysis step, read off the analysis  *)
(* it was given, the position value it reports and the state before it.    *)
GatesHold ==
  /\ Head(analyses).buy_signal
  /\ CapacityGate(results'[Len(results')].current_value)
  /\ TimeGate(Head(analyses).coin, now)

(* C1 (as stated): in every process_coin_analysis step an order is         *)
(* submitted to the exchange iff buy_signal, the capacity gate and the     *)
(* time gate all hold; otherwise the action is NONE and nothing is sent.   *)
C1_OrderSubmittedIffGates ==
  [][ProcessStep =>
       /\ (market_open_calls' # <<>>) <=> GatesHold
       /\ (~GatesHold => results'[Len(results')].action = "NONE")]_vars

(* C1 (amended): a market buy is attempted (action MARKET_BUY) iff the     *)
(* three gates hold; an order reaches the exchange only in such a step,    *)
(* and does so unless the attempt failed before submission (size-decimals  *)
(* metadata missing or its lookup raised), which is reported as a failed   *)
(* MARKET_BUY; in every other case the action is NONE and nothing is sent. *)
C1_BuyAttemptedIffGates ==
  [][ProcessStep =>
       LET r == results'[Len(results')]
       IN  /\ (r.action = "MARKET_BUY") <=> GatesHold
           /\ r.action \in {"MARKET_BUY", "NONE"}
           /\ (market_open_calls' # <<>> => GatesHold)
           /\ (~GatesHold => r.action = "NONE" /\ market_open_calls' = <<>>)
           /\ (GatesHold /\ market_open_calls' = <<>> =>
                 ~r.success /\ r.message \in {"no_szDecimals", "exception"})
           /\ (GatesHold /\ r.message \notin {"no_szDecimals", "exception"} =>
                 /\ Len(market_open_calls') = 1
                 /\ market_open_calls'[1].coin = r.coin)]_vars

C1_Witness ==
  /\ results # <<>>
  /\ LastResult.action = "MARKET_BUY"
  /\ LastResult.success
  /\ market_open_calls # <<>>
  /\ \E k \in 1..Len(results) : results[k].action = "NONE"

(* C2: an order for a coin is never submitted less than buy_block_minutes  *)
(* after the recorded time of that coin's previous successful buy, and two *)
(* successively recorded buy times of a coin are at least that far apart.  *)
C2_BuysSeparatedByBlock ==
  [][ProcessStep =>
       LET c == Head(analyses).coin
       IN  /\ (market_open_calls' # <<>> /\ last_buy_timestamps[c] # NoBuy =>
                 market_open_calls'[1].at - last_buy_timestamps[c]
                   >= buy_block_minutes * 60)
           /\ (last_buy_timestamps'[c] # last_buy_timestamps[c]
                 /\ last_buy_timestamps[c] # NoBuy =>
                 last_buy_timestamps'[c] - last_buy_timestamps[c]
                   >= buy_block_minutes * 60)]_vars

C2_Witness ==
  \E c \in Coins :
    /\ exchange_fills[c] = 2
    /\ market_open_calls # <<>>
    /\ market_open_calls[1].coin = c

(* C3: the BuyBlockState entry of a coin changes only in a step in which a *)
(* market buy for that same coin was confirmed ok by the exchange.         *)
C3_BlockStateChangesOnlyOnConfirmedBuy ==
  [][\A c \in Coins :
       last_buy_timestamps'[c] # last_buy_timestamps[c] =>
         /\ ProcessStep
         /\ Head(analyses).coin = c
         /\ results'[Len(results')].action = "MARKET_BUY"
         /\ results'[Len(results')].success
         /\ market_open_calls' # <<>>
         /\ market_open_calls'[1].coin = c
         /\ exchange_fills'[c] = exchange_fills[c] + 1]_vars

(* A failed order for PAXG right after a confirmed buy of XRP: PAXG's      *)
(* entry is still absent.                                                  *)
C3_Witness ==
  /\ Len(results) = 2
  /\ results[1].coin = "XRP" /\ results[1].success
  /\ results[2].coin = "PAXG" /\ results[2].action = "MARKET_BUY"
  /\ ~results[2].success
  /\ market_open_calls # <<>>
  /\ last_buy_timestamps["XRP"] # NoBuy
  /\ last_buy_timestamps["PAXG"] = NoBuy

(* C4: the capacity gate is true iff max_position_value_usd minus the      *)
(* current position value is at least position_value_usd, equality         *)
(* included: with 140 and 20, a current value of 130 blocks and 120 lets   *)
(* through.  Read off the results: a signalled, not time-blocked coin is   *)
(* bought iff the inequality holds for the value it reports.               *)
C4_CapacityGateInclusive ==
  /\ \A v \in {0, 120, 130, 140} :
       /\ can_buy_more(v).can_buy <=> CapacityGate(v)
       /\ can_buy_more(v).remaining_capacity = max_position_value_usd - v
  /\ ~can_buy_more(130).can_buy
  /\ can_buy_more(120).can_buy
  /\ \A k \in 1..Len(results) :
       LET r == results[k]
       IN  /\ r.remaining_capacity = max_position_value_usd - r.current_value
           /\ (r.action = "MARKET_BUY" => CapacityGate(r.current_value))
           /\ (r.buy_signal /\ r.message # "time_blocked" =>
                 (r.action = "MARKET_BUY" <=> CapacityGate(r.current_value)))
           /\ (r.current_value = 130 => r.action = "NONE")

C4_Witness ==
  /\ results # <<>>
  /\ LastResult.current_value = 120
  /\ LastResult.action = "MARKET_BUY"
  /\ \E k \in 1..Len(results) :
       results[k].current_value = 130 /\ results[k].buy_signal
       /\ results[k].message = "insufficient_capacity"

(* C5: the engine is buy-only: every result's action is NONE or            *)
(* MARKET_BUY and every call to the exchange is a buy.                     *)
C5_BuyOnly ==
  /\ \A k \in 1..Len(results) : results[k].action \in {"NONE", "MARKET_BUY"}
  /\ \A k \in 1..Len(market_open_calls) : market_open_calls[k].is_buy = TRUE
  /\ Len(market_open_calls) <= 1

C5_Witness ==
  /\ market_open_calls # <<>>
  /\ market_open_calls[1].is_buy
  /\ results # <<>>
  /\ LastResult.action = "MARKET_BUY"

----------------------------------------------------------------------------
(* Accumulation backtest: properties.                                      *)

RECURSIVE SumBuyAmount(_)
SumBuyAmount(buys) ==
  IF buys = <<>> THEN 0 ELSE Head(buys).buy_amount + SumBuyAmount(Tail(buys))

(* Number of recorded buys whose bar falls on calendar date d.             *)
BuysOn(buys, d) ==
  Cardinality({k \in 1..Len(buys) : buys[k].buy_time \div SecondsPerDay = d})

SeenDates == {coin_data[k].timestamp \div SecondsPerDay : k \in 1..Len(coin_data)}

Conserved(st) ==
  /\ st.remaining_capital + SumBuyAmount(st.buys) = params.total_capital
  /\ st.total_spent = SumBuyAmount(st.buys)

(* C6: after every processed bar, in the verbose and in the silent run,    *)
(* remaining_capital plus the buy_amount of all recorded buys is the       *)
(* initial total_capital, and total_spent is that sum.                     *)
C6_CapitalConserved == Conserved(acc) /\ Conserved(silent)

C6_Witness ==
  /\ Len(acc.buys) = 3
  /\ acc.remaining_capital = 10
  /\ Len(silent.buys) = 3

DailyCapHolds ==
  /\ \A d \in SeenDates : BuysOn(acc.buys, d) <= params.max_buys_per_day
  /\ \A j \in 1..Len(acc.daily_buys) :
       /\ acc.daily_buys[j][1] \in SeenDates
       /\ acc.daily_buys[j][2] = BuysOn(acc.buys, acc.daily_buys[j][1])
       /\ \A i \in 1..Len(acc.daily_buys) :
            acc.daily_buys[i][1] = acc.daily_buys[j][1] => i = j
  /\ \A k \in 1..Len(acc.buys) :
       /\ acc.buys[k].day = acc.buys[k].buy_time \div SecondsPerDay
       /\ DictHas(acc.daily_buys, acc.buys[k].day)

CountersNeverReset ==
  \A j \in 1..Len(acc.daily_buys) :
    /\ j <= Len(acc'.daily_buys)
    /\ acc'.daily_buys[j][1] = acc.daily_buys[j][1]
    /\ acc'.daily_buys[j][2] >= acc.daily_buys[j][2]

(* C7: on every calendar date at most max_buys_per_day buys are recorded;  *)
(* the counters are keyed by the calendar date of the bar, each equals the *)
(* number of buys recorded on its date, a counter starts at 0 when its     *)
(* date is first seen and no step resets or lowers it.                     *)
C7_DailyCap == []DailyCapHolds /\ [][CountersNeverReset]_vars

(* The cap of one buy per day was reached on a date, and a buy was made    *)
(* less than 24 hours later on the next date.                              *)
C7_Witness ==
  /\ params.max_buys_per_day = 1
  /\ Len(acc.buys) = 2
  /\ acc.buys[2].day = acc.buys[1].day + 1
  /\ acc.buys[2].buy_time - acc.buys[1].buy_time < SecondsPerDay
  /\ Len(coin_data) = 4
  /\ Len(acc.buy_opportunities) = 4

(* The row an AccBar step processes and whether it is a check boundary.    *)
StepRow == LastRow(coin_data', params)

AccBoundary ==
  /\ StepRow.low24 # NaN
  /\ Minute(StepRow.timestamp) # acc.last_check_minute

AccEligible ==
  /\ StepRow.in_buy_range
  /\ acc.remaining_capital >= params.max_buy_amount
  /\ BuysOn(acc.buys, Date(StepRow.timestamp)) < params.max_buys_per_day

AccBought ==
  /\ Len(acc'.buys) = Len(acc.buys) + 1
  /\ acc'.buys[Len(acc'.buys)].buy_time = StepRow.timestamp
  /\ SubSeq(acc'.buys, 1, Len(acc.buys)) = acc.buys

AccLedgerUnchanged ==
  /\ acc'.remaining_capital = acc.remaining_capital
  /\ acc'.total_coins_owned = acc.total_coins_owned
  /\ acc'.buys = acc.buys
  /\ acc'.total_spent = acc.total_spent
  /\ \A d \in SeenDates' :
       DictGet(acc'.daily_buys, d, 0) = DictGet(acc.daily_buys, d, 0)

(* C8: at a check boundary a buy is executed iff the bar is in range, the  *)
(* remaining capital is at least max_buy_amount and the date's buy counter *)
(* is below max_buys_per_day; otherwise the ledger is unchanged.           *)
C8_BuyIffEligible ==
  [][(bt_pc = "loop" /\ coin_data' # coin_data /\ AccBoundary) =>
       /\ AccBought <=> AccEligible
       /\ (~AccEligible => AccLedgerUnchanged)]_vars

(* In range at a boundary with capital left, but blocked by the daily cap. *)
C8_Witness ==
  /\ Len(coin_data) = 4
  /\ Len(acc.buys) = 2
  /\ acc.buys[1].day = acc.buys[2].day
  /\ acc.remaining_capital = 30
  /\ LastRow(coin_data, params).in_buy_range
  /\ acc.last_check_minute = Minute(coin_data[4].timestamp)
  /\ Minute(coin_data[4].timestamp) # Minute(coin_data[3].timestamp)
  /\ Date(coin_data[4].timestamp) = acc.buys[2].day
  /\ acc.buys[2].buy_time < coin_data[4].timestamp

----------------------------------------------------------------------------
(* Round-trip backtest: properties.                                        *)

RtStepRow == LastRow(coin_data', params)

RtBoundary ==
  /\ RtStepRow.low24 # NaN
  /\ Minute(RtStepRow.timestamp) # rt.last_check_minute

OnePosition ==
  /\ rt.position \in {0, 1}
  /\ rt.trade_count - Len(rt.trades) = rt.position
  /\ Len(rt.entry_prices) = rt.trade_count
  /\ (rt.position = 0 => rt.coins_owned = <<0, 1>>)

EnterIffInRange ==
  (bt_pc = "loop" /\ coin_data' # coin_data /\ rt.position = 0) =>
    /\ RtBoundary =>
         /\ (rt'.position = 1) <=> RtStepRow.in_buy_range
         /\ (rt'.position = 1 => rt'.entry_price = RtStepRow.close)
    /\ rt'.trades = rt.trades

(* C9: the state is FLAT (0) or LONG (1) and the positions opened and not  *)
(* yet closed number at most one; while FLAT, a check boundary enters LONG *)
(* iff the bar is in range, and the entry price recorded is the close of   *)
(* that bar.                                                               *)
C9_OnePositionEnterIffInRange == []OnePosition /\ [][EnterIffInRange]_vars

(* Long again after a closed trade.                                        *)
C9_Witness ==
  /\ rt.position = 1
  /\ Len(rt.trades) = 1
  /\ rt.trade_count = 2
  /\ rt.entry_price = coin_data[Len(coin_data)].close

RtTakeProfitHolds ==
  (RtStepRow.close - rt.entry_price) * 100 >=
     params.take_profit_pct * rt.entry_price

RtStopLossHolds ==
  (RtStepRow.close - rt.entry_price) * 100 <=
     (0 - params.stop_loss_pct) * rt.entry_price

RtClosedWith(reason) ==
  /\ rt'.position = 0
  /\ Len(rt'.trades) = Len(rt.trades) + 1
  /\ rt'.trades[Len(rt'.trades)].exit_reason = reason
  /\ rt'.trades[Len(rt'.trades)].entry_price = rt.entry_price
  /\ rt'.trades[Len(rt'.trades)].exit_price = RtStepRow.close

(* C10: while LONG, a check boundary closes with TAKE_PROFIT iff           *)
(* profit_pct >= take_profit_pct, otherwise with STOP_LOSS iff             *)
(* profit_pct <= -stop_loss_pct, otherwise the position stays open; take   *)
(* profit wins when both hold.  With entry 100 and take_profit_pct 5 the   *)
(* position closes with TAKE_PROFIT at a boundary iff close >= 105.        *)
C10_ExitRules ==
  [][(bt_pc = "loop" /\ coin_data' # coin_data /\ rt.position = 1
        /\ RtBoundary) =>
       /\ RtClosedWith("TAKE_PROFIT") <=> RtTakeProfitHolds
       /\ RtClosedWith("STOP_LOSS") <=> (~RtTakeProfitHolds /\ RtStopLossHolds)
       /\ (~RtTakeProfitHolds /\ ~RtStopLossHolds =>
             /\ rt'.position = 1
             /\ rt'.trades = rt.trades
             /\ rt'.entry_price = rt.entry_price)
       /\ (rt.entry_price = 100 /\ params.take_profit_pct = 5 =>
             (RtClosedWith("TAKE_PROFIT") <=> RtStepRow.close >= 105))]_vars

(* A take-profit at exactly +5 % (100 -> 105) followed by a stop-loss at   *)
(* exactly -3 % (100 -> 97).                                               *)
C10_Witness ==
  /\ params.take_profit_pct = 5
  /\ Len(rt.trades) = 2
  /\ rt.trades[1].exit_reason = "TAKE_PROFIT"
  /\ rt.trades[1].entry_price = 100 /\ rt.trades[1].exit_price = 105
  /\ rt.trades[1].profit_pct = <<5, 1>>
  /\ rt.trades[2].exit_reason = "STOP_LOSS"
  /\ rt.trades[2].profit_pct = <<-3, 1>>

----------------------------------------------------------------------------
(* Round-trip backtest: end of the series.                                 *)

(* The step that leaves the loop and returns.                              *)
RtReturns == bt_pc = "loop" /\ bt_pc' = "done"

(* C11: when the series ends while LONG the position is not closed: it     *)
(* stays LONG, the trade list returned is the one the loop left (one       *)
(* record per closed position, none for the open one), and the portfolio   *)
(* value returned is coins_owned times the last close of the series.       *)
C11_OpenPositionMarkedToMarket ==
  [][(RtReturns /\ rt.position = 1) =>
       /\ rt'.position = 1
       /\ rt'.trades = rt.trades
       /\ Len(rt'.trades) = rt'.trade_count - 1
       /\ final_value' =
            RMul(rt.coins_owned, RInt(coin_data[Len(coin_data)].close))]_vars

(* Returned while LONG for the second time, at a close other than the      *)
(* entry price.                                                            *)
C11_Witness ==
  /\ bt_pc = "done"
  /\ rt.position = 1
  /\ Len(rt.trades) = 1
  /\ coin_data[Len(coin_data)].close # rt.entry_price
  /\ final_value # rt.portfolio_value

----------------------------------------------------------------------------
(* The signal: properties.                                                 *)

SigDone == bt_pc = "signal_done"

(* The lows present in the window of row i: rows max(1, i-window+1) .. i.  *)
WindowLows(i) ==
  {coin_data[k].low :
     k \in (IF i - params.window + 1 < 1 THEN 1 ELSE i - params.window + 1)..i}
  \ {NaN}

SigLows == [k \in 1..Len(coin_data) |-> coin_data[k].low]
SigWindowLows == [k \in 1..Len(coin_data) |-> coin_data[k].low24]

(* C12: at every row the window low is the least low of the rows           *)
(* max(first, i-window+1) .. i (fewer rows while the frame is shorter than *)
(* the window), so it is at most the row's own low; lows 100, 98, 102      *)
(* with window 3 give 100, 98, 98.                                         *)
C12_WindowLowIsTrailingMinimum ==
  SigDone =>
    /\ \A i \in 1..Len(coin_data) :
         /\ WindowLows(i) = {} => coin_data[i].low24 = NaN
         /\ WindowLows(i) # {} =>
              /\ coin_data[i].low24 \in WindowLows(i)
              /\ \A v \in WindowLows(i) : coin_data[i].low24 <= v
         /\ coin_data[i].low # NaN => coin_data[i].low24 <= coin_data[i].low
    /\ (SigLows = <<100, 98, 102>> /\ params.window = 3) =>
         SigWindowLows = <<100, 98, 98>>

C12_Witness ==
  /\ SigDone
  /\ params.window = 3
  /\ SigLows = <<100, 98, 102>>
  /\ SigWindowLows = <<100, 98, 98>>

(* window_low <= close <= window_low * (1 + range_pct/100), in exact       *)
(* arithmetic; range_percentage is in hundredths of a percent.             *)
InClosedInterval(close, low24, rangeBps) ==
  /\ low24 # NaN
  /\ RLe(RInt(low24), RInt(close))
  /\ RLe(RInt(close),
         RMul(RInt(low24),
              RAdd(RInt(1), RDiv(Rat(rangeBps, 100), RInt(100)))))

(* C13: at every row in_buy_range is true iff the close lies in the closed *)
(* interval from the window low to the window low times                    *)
(* (1 + range_pct/100); with range_pct 0 it is true only when the close    *)
(* equals the window low.                                                  *)
C13_InRangeClosedInterval ==
  SigDone =>
    \A i \in 1..Len(coin_data) :
      /\ coin_data[i].in_buy_range <=>
           InClosedInterval(coin_data[i].close, coin_data[i].low24,
                            params.range_percentage)
      /\ params.range_percentage = 0 =>
           (coin_data[i].in_buy_range <=>
              coin_data[i].close = coin_data[i].low24)

(* A close exactly on the upper end (102 over a window low of 100 at 2 %)  *)
(* is in range, one exactly on the lower end is in range, and the same     *)
(* frame has a row out of range.                                           *)
C13_Witness ==
  /\ SigDone
  /\ params.range_percentage = 200
  /\ \E i, j, k \in 1..Len(coin_data) :
       /\ coin_data[i].low24 = 100 /\ coin_data[i].close = 102
       /\ coin_data[i].in_buy_range
       /\ coin_data[j].close = coin_data[j].low24
       /\ coin_data[j].in_buy_range
       /\ coin_data[k].low24 # NaN
       /\ ~coin_data[k].in_buy_range

(* C18: a frame is never evaluated with an invalid parameter (a negative   *)
(* range_percentage or window): such a parameter is rejected before the    *)
(* first row is evaluated.                                                 *)
C18_InvalidParameterRejected ==
  SigDone => (params.range_percentage >= 0 /\ params.window >= 0)

----------------------------------------------------------------------------
(* Live engine: failures.                                                  *)

(* A step taken inside the loop of run_trading_cycle.                      *)
LoopStep == pc = "cycle" /\ analyses # <<>>

StepCoin == Head(analyses).coin

(* C14: a failed order submission leaves the BuyBlockState as it was, and  *)
(* the next time the coin is processed with a buy signal and a passing     *)
(* capacity gate the buy is attempted again.                               *)
C14_FailedOrderRetriedNextCycle ==
  [][ProcessStep =>
       /\ (<<"order", StepCoin>> \in error_log' =>
             last_buy_timestamps' = last_buy_timestamps)
       /\ (order_failures[StepCoin] > 0
             /\ Head(analyses).buy_signal
             /\ CapacityGate(results'[Len(results')].current_value) =>
             results'[Len(results')].action = "MARKET_BUY")]_vars

(* An order that failed in the first cycle and was submitted again, and    *)
(* failed again, in the second, half an hour later.                        *)
C14_Witness ==
  /\ cycle_count = 2
  /\ now < buy_block_minutes * 60
  /\ \E c \in Coins :
       /\ order_failures[c] = 2
       /\ market_open_calls # <<>>
       /\ market_open_calls[1].coin = c

(* C15: a failed order submission (exchange status not ok, size decimals   *)
(* missing, or an exception on the way) does not leave                     *)
(* process_coin_analysis as an exception: the step returns a result with   *)
(* action MARKET_BUY, success false and the error as message, and the      *)
(* loop goes on with the next coin.                                        *)
C15_OrderFailureIsStructured ==
  [][LoopStep =>
       /\ pc' = "cycle"
       /\ ProcessStep
       /\ analyses' = Tail(analyses)
       /\ (<<"order", StepCoin>> \in error_log' =>
             LET r == results'[Len(results')]
             IN  /\ r.coin = StepCoin
                 /\ r.action = "MARKET_BUY"
                 /\ ~r.success
                 /\ r.message \in {"order_failed", "no_szDecimals",
                                   "exception"})]_vars

(* The order of the first coin failed with an exception after it reached   *)
(* the exchange, and the second coin was processed after it.               *)
C15_Witness ==
  /\ Len(results) = 2
  /\ <<"order", results[1].coin>> \in error_log
  /\ results[1].message = "exception"
  /\ ~results[1].success
  /\ exchange_fills[results[1].coin] = 0
  /\ results[2].action = "MARKET_BUY"

(* C16: when the position query of a step failed, the step does not decide *)
(* a buy as if the query had answered (no position).                       *)
C16_QueryFailureNotSwallowed ==
  [][(ProcessStep /\ <<"positions", StepCoin>> \in error_log') =>
       /\ results'[Len(results')].action # "MARKET_BUY"
       /\ market_open_calls' = <<>>]_vars

ResultCoins == [k \in 1..Len(results) |-> results[k].coin]
PendingCoins == [k \in 1..Len(analyses) |-> analyses[k].coin]
FetchSucceeded(c) == <<"fetch", c>> \notin error_log

(* Inside a cycle the coins processed so far followed by those still to be *)
(* processed are the coins whose fetch succeeded, in coin_mapping order.   *)
CycleCoversFetched ==
  pc = "cycle" => ResultCoins \o PendingCoins = SelectSeq(CoinList, FetchSucceeded)

(* Whatever fails in a step, the loop appends the result of the head coin  *)
(* and goes on; the cycle ends only when no coin is left.                  *)
StepKeepsGoing ==
  /\ LoopStep =>
       /\ pc' = "cycle"
       /\ analyses' = Tail(analyses)
       /\ ResultCoins' = Append(ResultCoins, StepCoin)
  /\ (pc = "cycle" /\ pc' # "cycle") => analyses = <<>>

(* C17: a failed candle fetch, position query or order submission for one  *)
(* coin does not abort the cycle: every other coin whose candles were      *)
(* fetched is still evaluated, in order.                                   *)
C17_FailureDoesNotAbortCycle ==
  []CycleCoversFetched /\ [][StepKeepsGoing]_vars

(* The position query and the order of the first coin failed and the       *)
(* second coin was evaluated after it.                                     *)
C17_Witness ==
  /\ Len(results) = 2
  /\ {<<"positions", "XRP">>, <<"order", "XRP">>} \subseteq error_log
  /\ results[1].coin = "XRP"
  /\ results[2].coin = "PAXG"
  /\ analyses = <<>>

(* C20: the time recorded for a coin in last_buy_timestamps never          *)
(* decreases (an absent entry counts as earlier than every time).          *)
C20_RecordedTimesNonDecreasing ==
  [][\A c \in Coins :
       last_buy_timestamps'[c] >= last_buy_timestamps[c]]_vars

(* A coin whose time was recorded twice.                                   *)
C20_Witness ==
  \E c \in Coins :
    /\ exchange_fills[c] = 2
    /\ last_buy_timestamps[c] >= buy_block_minutes * 60
    /\ pc = "idle"

----------------------------------------------------------------------------
(* The range sweep: properties.                                            *)

(* C19: the sweep holds one result per candidate of test_ranges, in list   *)
(* order, each the outcome of the accumulation backtest at that range; the *)
(* result selected has the greatest return_pct, and no result earlier in   *)
(* the list has a return_pct as great.                                     *)
C19_SweepSelectsFirstMaximum ==
  bt_pc = "swept" =>
    /\ Len(test_results) = Len(test_ranges)
    /\ \A k \in 1..Len(test_results) :
         /\ test_results[k].range_pct = test_ranges[k]
         /\ test_results[k].return_pct =
              Rat((test_results[k].final_value[1]
                     - params.total_capital * test_results[k].final_value[2])
                  * 100,
                  params.total_capital * test_results[k].final_value[2])
    /\ \E b \in 1..Len(test_results) :
         /\ best_result = test_results[b]
         /\ \A k \in 1..Len(test_results) :
              RLe(test_results[k].return_pct, best_result.return_pct)
         /\ \A k \in 1..(b - 1) :
              test_results[k].return_pct # best_result.return_pct

(* Candidates 0.25 to 0.50 tie for the best return and beat the smaller    *)
(* ones: 0.25 is selected.                                                 *)
C19_Witness ==
  /\ bt_pc = "swept"
  /\ best_result.range_pct = 25
  /\ test_results[6].return_pct = best_result.return_pct
  /\ test_results[10].return_pct = best_result.return_pct
  /\ RLt(test_results[1].return_pct, best_result.return_pct)
  /\ best_result.buys > 0

----------------------------------------------------------------------------
(* C21: in every process_coin_analysis step with a buy signal the time     *)
(* gate is open iff no buy is recorded for the coin or at least            *)
(* buy_block_minutes have passed since the recorded buy (exactly           *)
(* buy_block_minutes included): a closed gate gives NONE with the          *)
(* time-block reason and no order, an open gate with capacity gives a      *)
(* market buy.  With a 60-minute block, an eligible opportunity 30 minutes *)
(* after the recorded buy is time-blocked and one 61 minutes after it is   *)
(* bought.                                                                 *)
SinceLastBuy(c) == now - last_buy_timestamps[c]

C21_BlockedAtThirtyMinutes ==
  \E c \in Coins :
    /\ results # <<>>
    /\ LastResult.coin = c
    /\ LastResult.buy_signal
    /\ CapacityGate(LastResult.current_value)
    /\ LastResult.message = "time_blocked"
    /\ last_buy_timestamps[c] # NoBuy
    /\ SinceLastBuy(c) = 30 * 60

(* ... and exactly 60 minutes after it: bought.                            *)
C21_BoughtAtSixtyMinutes ==
  \E c \in Coins :
    /\ exchange_fills[c] = 2
    /\ results # <<>>
    /\ LastResult.coin = c
    /\ LastResult.success
    /\ last_buy_timestamps[c] = now
    /\ now = (1 + 60 * 60) + 1

----------------------------------------------------------------------------
(* C22: when the decision of a process_coin_analysis step is NONE, the     *)
(* reason reported is that of the first failing gate in the order          *)
(* no-signal, time-blocked, capacity-blocked, whatever the later gates     *)
(* say, and the final "waiting" reason is never reported.                  *)
CapacityReasons == {"position_limit", "insufficient_capacity"}

C22_ReasonPriority ==
  [][ProcessStep /\ results'[Len(results')].action = "NONE" =>
       LET a == Head(analyses)
           r == results'[Len(results')]
           time_ok == TimeGate(a.coin, now)
           cap_ok  == CapacityGate(r.current_value)
       IN  /\ (~a.buy_signal => r.message = "no_signal")
           /\ (a.buy_signal /\ ~time_ok => r.message = "time_blocked")
           /\ (a.buy_signal /\ time_ok /\ ~cap_ok =>
                 r.message \in CapacityReasons)
           /\ r.message # "waiting"
           /\ ~(a.buy_signal /\ time_ok /\ cap_ok)]_vars

(* A cycle in which one coin had a buy signal with both the time gate and  *)
(* the capacity gate closed (reported as time-blocked) and the other had   *)
(* no signal with both of them closed as well (reported as no-signal).     *)
C22_Witness ==
  /\ Len(results) = 2
  /\ \A k \in 1..2 :
       /\ results[k].action = "NONE"
       /\ ~CapacityGate(results[k].current_value)
       /\ ~TimeGate(results[k].coin, now)
  /\ results[1].buy_signal /\ results[1].message = "time_blocked"
  /\ ~results[2].buy_signal /\ results[2].message = "no_signal"

(* A NONE decided by the capacity gate alone.                              *)
C22_CapacityBlocked ==
  /\ results # <<>>
  /\ LastResult.buy_signal
  /\ TimeGate(LastResult.coin, now)
  /\ LastResult.message = "insufficient_capacity"

----------------------------------------------------------------------------
(* Round-trip backtest: the quantity bought.                               *)

(* A step of the loop that takes the position from FLAT to LONG.           *)
RtEnters ==
  bt_pc = "loop" /\ coin_data' # coin_data
    /\ rt.position = 0 /\ rt'.position = 1

(* The cash at hand while FLAT: position_size_usd before the first trade,  *)
(* afterwards what the last closed trade sold for.                         *)
RtCashAtHand ==
  IF rt.trades = <<>> THEN RInt(params.position_size_usd)
  ELSE LET last == rt.trades[Len(rt.trades)]
       IN  RMul(last.coins_traded, RInt(last.exit_price))

(* C23 (as stated): on every FLAT -> LONG transition, the first and every  *)
(* later one of a run, the quantity bought is position_size_usd divided by *)
(* the entry price.                                                        *)
C23_QuantityIsPositionSizeOverEntry ==
  [][RtEnters =>
       rt'.coins_owned = Rat(params.position_size_usd, rt'.entry_price)]_vars

(* C23 (amended): on every FLAT -> LONG transition the entry price is the  *)
(* close of the bar and the quantity bought is the whole cash at hand      *)
(* divided by it: position_size_usd / entry_price on the first entry of a  *)
(* run, the proceeds of the last closed trade / entry_price on every later *)
(* one.                                                                    *)
C23_QuantityIsCashOverEntry ==
  [][RtEnters =>
       /\ rt'.entry_price = RtStepRow.close
       /\ rt'.coins_owned = RDiv(RtCashAtHand, RInt(rt'.entry_price))
       /\ (rt.trades = <<>> =>
             rt'.coins_owned =
               Rat(params.position_size_usd, rt'.entry_price))]_vars

(* LONG for the second time, with a quantity other than                    *)
(* position_size_usd / entry_price.                                        *)
C23_Witness ==
  /\ rt.position = 1
  /\ Len(rt.trades) = 1
  /\ rt.trades[1].profit_loss # <<0, 1>>
  /\ rt.coins_owned # Rat(params.position_size_usd, rt.entry_price)
  /\ rt.coins_owned = RDiv(rt.portfolio_value, RInt(rt.entry_price))

----------------------------------------------------------------------------
(* Round-trip backtest: the times of a trade record.                       *)

(* The rows at whose timestamp the close was the given price.              *)
RowsAt(ts, price) ==
  {j \in 1..Len(coin_data) :
     coin_data[j].timestamp = ts /\ coin_data[j].close = price}

(* C24: every closed trade record carries as entry_time the timestamp of   *)
(* the check boundary at which its position was opened (a bar that closed  *)
(* at the entry price) and as exit_time that of the boundary at which it   *)
(* was closed, so entry_time is strictly earlier than exit_time.           *)
C24_EntryTimeBeforeExitTime ==
  bt_pc = "loop" =>
    \A k \in 1..Len(rt.trades) :
      LET t == rt.trades[k]
      IN  /\ RowsAt(t.entry_time, t.entry_price) # {}
          /\ RowsAt(t.exit_time, t.exit_price) # {}
          /\ t.entry_time < t.exit_time

----------------------------------------------------------------------------
(* Both backtests: check boundaries.                                       *)

(* A step of the loops on the next bar of the series.                      *)
BarStep == bt_pc = "loop" /\ coin_data' # coin_data

RtPositionUnchanged ==
  /\ rt'.position = rt.position
  /\ rt'.entry_price = rt.entry_price
  /\ rt'.coins_owned = rt.coins_owned
  /\ rt'.portfolio_value = rt.portfolio_value
  /\ rt'.trades = rt.trades
  /\ rt'.trade_count = rt.trade_count

(* The transitions one bar made: entries plus exits, and buys.             *)
RtTransitions ==
  (rt'.trade_count - rt.trade_count) + (Len(rt'.trades) - Len(rt.trades))

AccTransitions == Len(acc'.buys) - Len(acc.buys)

(* C25: in both backtests the rules are evaluated only at check            *)
(* boundaries.  A bar is a check boundary iff its minute differs from the  *)
(* minute of the previous check boundary (last_check_minute, which the     *)
(* boundary then takes over), a bar makes at most one transition, and a    *)
(* bar that is not a check boundary leaves the position, the trade list    *)
(* and the ledger as they were; at a boundary the rules are evaluated (an  *)
(* in-range bar opens the position when flat, an eligible buy is made).    *)
C25_RulesOnlyAtCheckBoundaries ==
  [][BarStep =>
       /\ rt'.last_check_minute =
            IF RtBoundary THEN Minute(RtStepRow.timestamp)
            ELSE rt.last_check_minute
       /\ acc'.last_check_minute =
            IF AccBoundary THEN Minute(StepRow.timestamp)
            ELSE acc.last_check_minute
       /\ (~RtBoundary => RtPositionUnchanged)
       /\ (~AccBoundary => AccLedgerUnchanged /\ acc'.buy_count = acc.buy_count)
       /\ (RtBoundary /\ rt.position = 0 /\ RtStepRow.in_buy_range =>
             rt'.position = 1)
       /\ (AccBoundary /\ AccEligible => AccBought)
       /\ RtTransitions \in {0, 1}
       /\ AccTransitions \in {0, 1}]_vars

(* Three bars: the second in the minute of the first, in range, with       *)
(* capital left and at the stop-loss level, and nothing happened at it;    *)
(* the third, in the next minute, closed the position and bought.          *)
C25_Witness ==
  /\ Len(coin_data) = 3
  /\ Minute(coin_data[2].timestamp) = Minute(coin_data[1].timestamp)
  /\ Minute(coin_data[3].timestamp) # Minute(coin_data[2].timestamp)
  /\ coin_data[1].close = 100 /\ coin_data[2].close = 97
  /\ Len(acc.buys) = 2
  /\ acc.buys[1].buy_time = coin_data[1].timestamp
  /\ acc.buys[2].buy_time = coin_data[3].timestamp
  /\ Len(rt.trades) = 1
  /\ rt.trades[1].entry_price = 100
  /\ rt.trades[1].exit_reason = "STOP_LOSS"
  /\ rt.trades[1].exit_time = coin_data[3].timestamp

----------------------------------------------------------------------------
(* Accumulation backtest: the ledger over time.                            *)

(* C26: remaining_capital never increases and is never negative, and       *)
(* total_coins_owned never decreases, from bar to bar of the series.       *)
C26_LedgerMonotone ==
  /\ [](bt_pc = "loop" => acc.remaining_capital >= 0)
  /\ [][BarStep =>
          /\ acc'.remaining_capital <= acc.remaining_capital
          /\ acc'.remaining_capital >= 0
          /\ RLe(acc.total_coins_owned, acc'.total_coins_owned)
          /\ (acc'.remaining_capital < acc.remaining_capital <=>
                RLt(acc.total_coins_owned, acc'.total_coins_owned))]_vars

(* Three buys took the capital from 70 to 10 and the coins up each time;   *)
(* a fourth bar in range bought nothing.                                   *)
C26_Witness ==
  /\ params.total_capital = 70
  /\ Len(acc.buys) = 3
  /\ acc.remaining_capital = 10
  /\ RLt(acc.buys[1].coins_bought, acc.total_coins_owned)
  /\ Len(coin_data) = 4
  /\ acc.buys[3].buy_time < coin_data[4].timestamp
  /\ LastRow(coin_data, params).in_buy_range

----------------------------------------------------------------------------
(* Both backtests: bars without a 24h low.                                 *)

HasLow(row) == row.low24 # NaN

(* The rows of the series (with the signal columns) that have a 24h low.   *)
DefinedRows ==
  SelectSeq(calculate_24h_low_range(coin_data, BacktestWindow,
                                    params.range_percentage), HasLow)

(* The loops run on a sequence of rows from the initial locals.            *)
RECURSIVE RtRun(_, _, _)
RtRun(st, rows, p) ==
  IF rows = <<>> THEN st
  ELSE RtRun(RtProcessRow(st, Head(rows), p), Tail(rows), p)

RECURSIVE AccRun(_, _, _)
AccRun(st, rows, p) ==
  IF rows = <<>> THEN st
  ELSE AccRun(AccProcessRow(st, Head(rows), p), Tail(rows), p)

----------------------------------------------------------------------------
(* The analyzer's metrics: in_buy_range against distance_from_low_pct.     *)

MetricDone == bt_pc = "metrics_done"

(* C28: for every computed signal with a 24h low above zero, in_buy_range  *)
(* is true iff distance_from_low_pct = (close - 24h_low) / 24h_low * 100   *)
(* lies in the closed interval [0, range_percentage].                      *)
C28_InRangeIffDistanceInInterval ==
  MetricDone =>
    \A i \in 1..Len(coin_data) :
      coin_data[i].low24.s > 0 =>
        (coin_data[i].in_buy_range <=>
           /\ F64Le(F64Zero, coin_data[i].distance_from_low_pct)
           /\ F64Le(coin_data[i].distance_from_low_pct,
                    params.range_percentage))

----------------------------------------------------------------------------
(* Live engine: interruption.                                              *)

(* C29: when the run loop has been interrupted, every order the exchange   *)
(* confirmed before the interruption has its buy timestamp recorded: a     *)
(* coin with confirmed orders has a BuyBlockState entry, and that entry    *)
(* was written in the step that confirmed the last of them.                *)
C29_ConfirmedBuysRecordedAtInterrupt ==
  /\ [](pc = "stopped" =>
          \A c \in Coins :
            exchange_fills[c] > 0 => last_buy_timestamps[c] # NoBuy)
  /\ [][\A c \in Coins :
          exchange_fills'[c] > exchange_fills[c] =>
            /\ last_buy_timestamps'[c] # NoBuy
            /\ last_buy_timestamps'[c] > now]_vars

----------------------------------------------------------------------------
(* Accumulation backtest: the size of a buy.                               *)

(* C30: every recorded buy spends exactly max_buy_amount (the min of line  *)
(* 148 never selects remaining_capital), so the ledger is total_capital    *)
(* less max_buy_amount per buy; a remaining capital below max_buy_amount   *)
(* is never spent; and the number of buys is at most                       *)
(* floor(total_capital / max_buy_amount).                                  *)
C30_EveryBuySpendsMaxBuyAmount ==
  /\ [](bt_pc = "loop" =>
          /\ \A i \in 1..Len(acc.buys) :
               /\ acc.buys[i].buy_amount = params.max_buy_amount
               /\ acc.buys[i].coins_bought =
                    Rat(params.max_buy_amount, acc.buys[i].buy_price)
          /\ acc.remaining_capital =
               params.total_capital - params.max_buy_amount * Len(acc.buys)
          /\ acc.total_spent = params.max_buy_amount * Len(acc.buys)
          /\ acc.buy_count = Len(acc.buys)
          /\ Len(acc.buys) <= params.total_capital \div params.max_buy_amount)
  /\ [][(BarStep /\ acc.remaining_capital < params.max_buy_amount) =>
          /\ acc'.remaining_capital = acc.remaining_capital
          /\ acc'.buys = acc.buys
          /\ acc'.total_coins_owned = acc.total_coins_owned]_vars

(* A capital of 30 bought once for 20; the residual 10 met a later check   *)
(* boundary in range, with the day's allowance not used up, and stayed.    *)
C30_Witness ==
  /\ params.total_capital = 30
  /\ params.max_buys_per_day = 2
  /\ Len(acc.buys) = 1
  /\ acc.buys[1].buy_amount = 20
  /\ acc.remaining_capital = 10
  /\ Len(coin_data) >= 2
  /\ acc.buys[1].buy_time < coin_data[Len(coin_data)].timestamp
  /\ Date(acc.buys[1].buy_time) = Date(coin_data[Len(coin_data)].timestamp)
  /\ LastRow(coin_data, params).in_buy_range
  /\ acc.last_check_minute = Minute(coin_data[Len(coin_data)].timestamp)
  /\ Minute(acc.buys[1].buy_time) # acc.last_check_minute

----------------------------------------------------------------------------
(* Both backtests: the first check boundary.                               *)

AllOnTheHour ==
  \A k \in 1..Len(coin_data) : Minute(coin_data[k].timestamp) = 0

(* C31: last_check_minute starts at 0, so the first bar (with a 24h low)   *)
(* is a check boundary iff its minute is not 0: with another minute it     *)
(* sets last_check_minute and, in range, buys and enters; with minute 0 it *)
(* does neither.  While every bar of the series has minute 0 no boundary   *)
(* fires: neither backtest has bought or entered, whatever the signal.     *)
C31_FirstBoundaryNeedsNonZeroMinute ==
  /\ [][(BarStep /\ coin_data = <<>> /\ HasLow(StepRow)) =>
          /\ (Minute(StepRow.timestamp) # 0 <=>
                acc'.last_check_minute # acc.last_check_minute)
          /\ (Minute(StepRow.timestamp) # 0 <=>
                rt'.last_check_minute # rt.last_check_minute)
          /\ (Minute(StepRow.timestamp) # 0 /\ StepRow.in_buy_range =>
                Len(acc'.buys) = 1 /\ rt'.position = 1)
          /\ (Minute(StepRow.timestamp) = 0 =>
                acc'.buys = <<>> /\ rt'.position = 0)]_vars
  /\ []((bt_pc = "loop" /\ AllOnTheHour) =>
          /\ acc.buys = <<>>
          /\ acc.remaining_capital = params.total_capital
          /\ acc.last_check_minute = 0
          /\ silent.buys = <<>>
          /\ rt.position = 0
          /\ rt.trade_count = 0
          /\ rt.trades = <<>>
          /\ rt.last_check_minute = 0)

(* Four hourly bars, each on the hour and each in range, and nothing was   *)
(* bought or entered.                                                      *)
C31_Witness ==
  /\ Len(coin_data) = 4
  /\ AllOnTheHour
  /\ \A k \in 1..3 :
       coin_data[k + 1].timestamp - coin_data[k].timestamp = 3600
  /\ \A k \in 1..4 :
       calculate_24h_low_range(coin_data, BacktestWindow,
                               params.range_percentage)[k].in_buy_range
  /\ acc.buys = <<>>
  /\ Len(acc.buy_opportunities) = 4
  /\ rt.position = 0
  /\ rt.trade_count = 0

----------------------------------------------------------------------------
(* Accumulation backtest: the silent variant against the verbose one.      *)

AccLeavesLoop == bt_pc = "loop" /\ bt_pc' # "loop"

(* The two loops keep the same locals on the same series.                  *)
SilentLedgerEqualsVerbose == bt_pc # "off" => silent = acc

(* C32: backtest_24h_low_strategy_silent and backtest_24h_low_strategy go  *)
(* through the same ledger states on the same series and parameters, and   *)
(* both return, with the same buy list, final portfolio value,             *)
(* total_spent, remaining_capital and total_coins_owned.                   *)
C32_SilentEquivalentToVerbose ==
  /\ []SilentLedgerEqualsVerbose
  /\ [][AccLeavesLoop =>
          /\ bt_pc' = "done"
          /\ final_value' = AccReturned(silent, coin_data).final_portfolio_value
          /\ AccReturned(acc, coin_data) = AccReturned(silent, coin_data)]_vars

----------------------------------------------------------------------------
(* Round-trip backtest: one transition per check boundary.                 *)

RtOpened == rt'.trade_count = rt.trade_count + 1
RtClosed == Len(rt'.trades) = Len(rt.trades) + 1

(* C33: a bar makes at most one transition.  A bar that opens a position   *)
(* starts FLAT, ends LONG and closes nothing, so the position is closed at *)
(* a later check boundary at the earliest; a bar that closes a position    *)
(* starts LONG at a check boundary, ends FLAT and opens nothing, in range   *)
(* or not.                                                                 *)
C33_OneTransitionPerBoundary ==
  [][BarStep =>
       /\ rt'.trade_count \in {rt.trade_count, rt.trade_count + 1}
       /\ Len(rt'.trades) \in {Len(rt.trades), Len(rt.trades) + 1}
       /\ ~(RtOpened /\ RtClosed)
       /\ (RtOpened =>
             /\ RtBoundary
             /\ rt.position = 0 /\ rt'.position = 1
             /\ rt'.trades = rt.trades)
       /\ (RtClosed =>
             /\ RtBoundary
             /\ rt.position = 1 /\ rt'.position = 0
             /\ rt'.trade_count = rt.trade_count
             /\ rt'.entry_prices = rt.entry_prices
             /\ rt'.coins_owned = <<0, 1>>)
       /\ (rt'.position # rt.position <=> (RtOpened \/ RtClosed))]_vars

(* The position opened at the first bar was closed at the second, a bar in *)
(* range, and the run was FLAT after it with one entry counted.            *)
C33_Witness ==
  /\ Len(coin_data) = 2
  /\ LastRow(coin_data, params).in_buy_range
  /\ Len(rt.trades) = 1
  /\ rt.trades[1].exit_time = coin_data[2].timestamp
  /\ rt.trades[1].entry_price = coin_data[1].close
  /\ rt.position = 0
  /\ rt.trade_count = 1
  /\ rt.last_check_minute = Minute(coin_data[2].timestamp)

----------------------------------------------------------------------------
(* The sum of profit_loss over the closed trades, in exact arithmetic.     *)
RECURSIVE SumProfitLoss(_)
SumProfitLoss(ts) ==
  IF ts = <<>> THEN <<0, 1>>
  ELSE RAdd(Head(ts).profit_loss, SumProfitLoss(Tail(ts)))

FlatValueIsInitialPlusRealized ==
  (bt_pc = "loop" /\ rt.position = 0) =>
    /\ rt.coins_owned = <<0, 1>>
    /\ rt.portfolio_value =
         RAdd(RInt(params.position_size_usd), SumProfitLoss(rt.trades))

RtEndsFlat == bt_pc = "loop" /\ bt_pc' # "loop" /\ rt.position = 0

(* C34: whenever the round-trip engine is FLAT, coins_owned is 0 and       *)
(* portfolio_value equals position_size_usd plus the sum of profit_loss    *)
(* over the closed trades; a run that ends FLAT returns that amount.       *)
C34_FlatRunReturnsInitialPlusRealized ==
  /\ []FlatValueIsInitialPlusRealized
  /\ [][RtEndsFlat =>
          /\ bt_pc' = "done"
          /\ final_value' =
               RAdd(RInt(params.position_size_usd), SumProfitLoss(rt.trades))]_vars

----------------------------------------------------------------------------
(* What a call of process_coin_analysis decides and orders: everything it  *)
(* returns and changes except the has_position field of its result.        *)
DecisionAndOrder(e, d) ==
  LET r == process_coin_analysis(Head(analyses), e, last_buy_timestamps,
                                 now, now + d)
  IN  [action |-> r.result.action,
       success |-> r.result.success,
       message |-> r.result.message,
       current_value |-> r.result.current_value,
       calls |-> r.calls,
       last |-> r.last,
       raised |-> r.raised]

(* C35: the decision of a live step does not depend on whether a position  *)
(* is open: two calls of process_coin_analysis that differ only in the     *)
(* answer has_position gets (same analysis, same queried position value,   *)
(* same last buy timestamps, same other answers) take the same action and  *)
(* place the same order.                                                   *)
C35_DecisionIndependentOfHasPosition ==
  (pc = "cycle" /\ analyses # <<>>) =>
    \A e \in ExternalAnswers(Head(analyses), last_buy_timestamps, now) :
      Reached(Head(analyses), last_buy_timestamps, now, e) =>
        \A u \in HasPositionOutcomes, d \in Latency :
          DecisionAndOrder([e EXCEPT !.us1 = u], d) = DecisionAndOrder(e, d)

(* A step bought for a coin whose position was reported open although the *)
(* same step without an open position would have bought too.              *)
C35_Witness ==
  /\ pc = "cycle"
  /\ results # <<>>
  /\ results[Len(results)].has_position
  /\ results[Len(results)].action = "MARKET_BUY"
  /\ results[Len(results)].success
  /\ results[Len(results)].current_value > 0
  /\ market_open_calls # <<>>

----------------------------------------------------------------------------
(* The coins for which the orders of the calls list were placed.           *)
OrderedCoins(calls) == {calls[k].coin : k \in 1..Len(calls)}

FetchFailedInCycle(c) == <<"fetch", c>> \in error_log'

(* C36: a coin whose candle fetch failed or returned no bars in a cycle    *)
(* gets no order in that cycle, keeps its last buy timestamp, and has no   *)
(* entry in the cycle's result list (it is never handed to                 *)
(* process_coin_analysis).                                                 *)
C36_FailedFetchSkipsCoin ==
  [][\A c \in Coins :
       ((pc = "cycle" \/ pc' = "cycle") /\ FetchFailedInCycle(c)) =>
         /\ c \notin OrderedCoins(market_open_calls')
         /\ last_buy_timestamps'[c] = last_buy_timestamps[c]
         /\ exchange_fills'[c] = exchange_fills[c]
         /\ \A k \in 1..Len(results') : results'[k].coin # c
         /\ \A k \in 1..Len(analyses') : analyses'[k].coin # c]_vars

(* In a second cycle the fetch of XRP, bought in the first, failed; PAXG   *)
(* was bought and XRP was left out.                                        *)
C36_Witness ==
  /\ pc = "cycle"
  /\ cycle_count = 2
  /\ analyses = <<>>
  /\ <<"fetch", "XRP">> \in error_log
  /\ last_buy_timestamps["XRP"] # NoBuy
  /\ exchange_fills["XRP"] = 1
  /\ Len(results) = 1
  /\ results[1].coin = "PAXG"
  /\ results[1].action = "MARKET_BUY"
  /\ results[1].success

----------------------------------------------------------------------------
(* C37: on one series and with the same total_capital, max_buy_amount and  *)
(* max_buys_per_day, a run of the accumulation backtest with a wider range *)
(* makes at least as many buys as a run with a narrower one.               *)
C37_BuysNonDecreasingInRange ==
  \A i \in 1..Len(test_results), j \in 1..Len(test_results) :
    test_results[i].range_pct <= test_results[j].range_pct =>
      test_results[i].buys <= test_results[j].buys

(* A sweep in which the 0.20 % range bought once, the 0.25 % range twice   *)
(* and the 0.50 % range no more than that, having spent the whole capital. *)
C37_Witness ==
  /\ bt_pc = "swept"
  /\ params.total_capital = 100
  /\ params.max_buys_per_day = 10
  /\ test_results[4].buys = 1
  /\ test_results[5].buys = 2
  /\ test_results[10].buys = 2
  /\ test_results[10].remaining_capital = 0
  /\ test_results[5].buy_opportunities < Len(coin_data)

====
